---- MODULE Spec2Model ----
(***************************************************************************)
(* Weapon / weapon-manager / card-modifier state machine of rounds_model.   *)
(*                                                                         *)
(* Units.  The source computes with floats; the model uses exact integers: *)
(*   time                  ticks of 1/8 s   (1.5 s reload = 12 ticks)      *)
(*   fire_rate             half shots per second  (2.0 shots/s = 4)        *)
(*   *_multiplier, values  quarters         (1.0 = 4, 0.25 = 1, 0.5 = 2)   *)
(*   reload_time_multiplier a fraction <<num, den>> (it is multiplied and  *)
(*                         divided, never added to)                        *)
(* Every float the modelled calls produce from these inputs is a dyadic    *)
(* rational the source's doubles hold exactly, or is compared only with    *)
(* values it cannot be equal to, so the integer comparisons below decide   *)
(* exactly as the source's float comparisons do.                           *)
(***************************************************************************)
EXTENDS Integers, Sequences, FiniteSets, TLC

VARIABLES
    now,                  \* time.time(), in ticks
    weapons,              \* WeaponManager.weapons: type -> WeaponBase fields
    current_weapon_type,  \* WeaponManager.current_weapon_type
    card_stacks,          \* current_stacks of one instance of each weapon card
    card_ops,             \* number of modifier-changing calls made so far
    switches,             \* number of successful weapon switches so far
    frame,                \* which calls the running frame has already made
    op,                   \* the last call made
    returned,             \* what the last call returned (or raised)
    emitted,              \* the events the last call appended to event_queue
    player,               \* the object cards are applied to: its attributes
    cards,                \* the card instances created so far, by identity
    player_cards,         \* CardManager.player_cards for the one player
    before,               \* the player and weapons when the run began
    calls,                \* the card methods the last manager call invoked
    bodies,               \* PhysicsSystem.bodies: the PhysicsBody fields, in order
    spatial_hash,         \* PhysicsSystem.spatial_hash: cell -> indices of bodies
    collision_pairs,      \* PhysicsSystem.collision_pairs
    current_collisions,   \* PhysicsSystem.current_collisions
    observed,             \* the bodies at the start of the last update, after its
                          \* integration loop, and around each resolution
    listeners,            \* EventManager.listeners: type -> callbacks
    event_queue,          \* EventManager.event_queue
    enabled,              \* EventManager.enabled
    event_count,          \* the Event objects created so far
    received,             \* the listener calls the last call made, in order
    game                  \* Game: its state, bullets and dummies, and the steps of
                          \* the last tick

\* the variables of the card manager and of the object cards act on
cardvars == <<player, cards, player_cards, before, calls>>

\* the variables of the physics system
physvars == <<bodies, spatial_hash, collision_pairs, current_collisions, observed>>

\* the variables of the event manager
eventvars == <<listeners, event_queue, enabled, event_count, received>>

othervars == <<physvars, eventvars, game>>

vars == <<now, weapons, current_weapon_type, card_stacks, card_ops, switches, frame,
          op, returned, emitted, player, cards, player_cards, before, calls,
          bodies, spatial_hash, collision_pairs, current_collisions, observed,
          listeners, event_queue, enabled, event_count, received, game>>

\* no body observed yet
NothingObserved == [updates |-> 0, start |-> <<>>, moved |-> <<>>, resolved |-> <<>>]

\* a physics system without bodies
NoPhysics ==
    /\ bodies = <<>>
    /\ spatial_hash = <<>>
    /\ collision_pairs = {}
    /\ current_collisions = <<>>
    /\ observed = NothingObserved

\* a game that has not begun: no bullet, no dummy, no tick
NoGame ==
    game = [game_state |-> "playing", bullets |-> <<>>, dummies |-> <<>>,
            shots |-> 0, ticks |-> 0, steps |-> <<>>]

\* an event manager without listeners
NoEvents ==
    /\ listeners = <<>>
    /\ event_queue = <<>>
    /\ enabled = TRUE
    /\ event_count = 0
    /\ received = <<>>

---------------------------------------------------------------------------
(* Bounds *)

\* time.time() when the program starts, far beyond any fire interval
StartTime == 1000
\* seconds after which the model stops advancing the one-second clock
MaxTime == 3
\* successful weapon switches in one run of the weapon manager
MaxSwitches == 1
\* direct apply_card_effect calls in one run
MaxEffectCalls == 1
\* card apply_effect / remove_effect calls in one run
MaxCardOps == 2
\* frames (1/8 s) the single-weapon firing run lasts
MaxFrames == 44
\* card instances created in one run of the card manager
MaxCards == 3
\* card manager and card instance calls in one run
MaxManagerCalls == 3

---------------------------------------------------------------------------
(* Configuration: GameConfig.__post_init__ *)

weapon_order == <<"pistol", "shotgun", "smg", "sniper">>

WeaponTypes == {weapon_order[i] : i \in 1..Len(weapon_order)}

weapon_configs ==
    [pistol  |-> [damage |-> 25, fire_rate |-> 4,  magazine_size |-> 8,
                  reload_time |-> 12, bullets_per_shot |-> 1],
     shotgun |-> [damage |-> 15, fire_rate |-> 2,  magazine_size |-> 4,
                  reload_time |-> 20, bullets_per_shot |-> 5],
     smg     |-> [damage |-> 15, fire_rate |-> 16, magazine_size |-> 24,
                  reload_time |-> 16, bullets_per_shot |-> 1],
     sniper  |-> [damage |-> 75, fire_rate |-> 1,  magazine_size |-> 3,
                  reload_time |-> 24, bullets_per_shot |-> 1]]

\* the scale factors of the integer encoding
Units == [second |-> 8, rate |-> 2, mult |-> 4]

---------------------------------------------------------------------------
(* Arithmetic helpers *)

Abs(x) == IF x < 0 THEN -x ELSE x

RECURSIVE Gcd(_, _)
Gcd(a, b) == IF b = 0 THEN a ELSE Gcd(b, a % b)

\* a fraction in lowest terms with a positive denominator
Frac(n, d) ==
    LET g == Gcd(Abs(n), Abs(d))
        s == IF d < 0 THEN -1 ELSE 1
    IN  <<(s * n) \div g, (s * d) \div g>>

\* int(x) of Python for x = q quarters: truncation toward zero
IntOfQuarters(q) == IF q >= 0 THEN q \div Units.mult ELSE -((-q) \div Units.mult)

\* int(x * 0.5) for an integer x >= 0
IntOfHalf(x) == x \div Units.rate

---------------------------------------------------------------------------
(* WeaponBase *)

\* WeaponBase.__init__
NewWeapon(w) ==
    [current_ammo           |-> weapon_configs[w].magazine_size,
     is_reloading           |-> FALSE,
     reload_start_time      |-> 0,
     last_shot_time         |-> 0,
     damage_multiplier      |-> Units.mult,
     fire_rate_multiplier   |-> Units.mult,
     reload_time_multiplier |-> <<1, 1>>,
     magazine_size_bonus    |-> 0,
     bullet_size_multiplier |-> Units.mult]

get_max_magazine_size(w, s) == weapon_configs[w].magazine_size + s.magazine_size_bonus

\* fire_rate * fire_rate_multiplier, in 1/8 shots per second
EffectiveRate(w, s) == weapon_configs[w].fire_rate * s.fire_rate_multiplier

\* IntervalElapsed with > for >=: a shot exactly one interval later is refused
IntervalElapsedStrict(w, s, t) ==
    LET r == EffectiveRate(w, s)
        e == t - s.last_shot_time
    IN  IF r > 0 THEN e * r > Units.second * Units.second
                 ELSE e * r < Units.second * Units.second

\* t - last >= 1.0 / (fire_rate * fire_rate_multiplier), for a non-zero rate
IntervalElapsed(w, s, t) ==
    LET r == EffectiveRate(w, s)
        e == t - s.last_shot_time
    IN  IF r > 0 THEN e * r >= Units.second * Units.second
                 ELSE e * r <= Units.second * Units.second

\* ReloadElapsed with > for >=: a reload is not complete exactly on time
ReloadElapsedStrict(w, s, t) ==
    (t - s.reload_start_time) * s.reload_time_multiplier[2]
        > weapon_configs[w].reload_time * s.reload_time_multiplier[1]

\* t - reload_start_time >= reload_time * reload_time_multiplier
ReloadElapsed(w, s, t) ==
    (t - s.reload_start_time) * s.reload_time_multiplier[2]
        >= weapon_configs[w].reload_time * s.reload_time_multiplier[1]

\* can_shoot: "True", "False", or the ZeroDivisionError of 1.0 / 0.0
can_shoot(w, s, t) ==
    IF EffectiveRate(w, s) = 0 THEN "ZeroDivisionError"
    ELSE IF ~s.is_reloading /\ s.current_ammo > 0 /\ IntervalElapsed(w, s, t)
         THEN "True" ELSE "False"

Event(type, w) == [type |-> type, weapon_type |-> w]

\* a call: the method and the argument or weapon it is made on
Call(name, arg) == [name |-> name, arg |-> arg]

\* reload without the is_reloading guard: a second call restarts the reload
reload_restart(w, s, t) ==
    IF s.current_ammo = get_max_magazine_size(w, s)
    THEN [weapon |-> s, events |-> <<>>, ret |-> "False"]
    ELSE [weapon |-> [s EXCEPT !.is_reloading = TRUE, !.reload_start_time = t],
          events |-> <<Event("weapon_reload_start", w), Event("sound_play", w)>>,
          ret    |-> "True"]

\* reload: the weapon after the call, the events emitted, the value returned
reload(w, s, t) ==
    IF s.is_reloading \/ s.current_ammo = get_max_magazine_size(w, s)
    THEN [weapon |-> s, events |-> <<>>, ret |-> "False"]
    ELSE [weapon |-> [s EXCEPT !.is_reloading = TRUE, !.reload_start_time = t],
          events |-> <<Event("weapon_reload_start", w), Event("sound_play", w)>>,
          ret    |-> "True"]

shoot(w, s, t) ==
    IF s.current_ammo = 0 /\ ~s.is_reloading
    THEN [reload(w, s, t) EXCEPT !.ret = "False"]
    ELSE IF can_shoot(w, s, t) # "True"
    THEN [weapon |-> s, events |-> <<>>, ret |-> can_shoot(w, s, t)]
    ELSE LET fired == [s EXCEPT !.last_shot_time = t,
                                !.current_ammo = s.current_ammo - 1]
             fire  == <<Event("weapon_fire", w), Event("sound_play", w)>>
         IN  IF fired.current_ammo = 0
             THEN [weapon |-> reload(w, fired, t).weapon,
                   events |-> fire \o reload(w, fired, t).events,
                   ret    |-> "True"]
             ELSE [weapon |-> fired, events |-> fire, ret |-> "True"]

\* _complete_reload that refills to the base magazine_size, without the bonus
_complete_reload_base(w, s) ==
    [weapon |-> [s EXCEPT !.is_reloading = FALSE,
                          !.current_ammo = weapon_configs[w].magazine_size],
     events |-> <<Event("weapon_reload_complete", w)>>]

_complete_reload(w, s) ==
    [weapon |-> [s EXCEPT !.is_reloading = FALSE,
                          !.current_ammo = get_max_magazine_size(w, s)],
     events |-> <<Event("weapon_reload_complete", w)>>]

update(w, s, t) ==
    IF s.is_reloading /\ ReloadElapsed(w, s, t)
    THEN _complete_reload(w, s)
    ELSE [weapon |-> s, events |-> <<>>]

---------------------------------------------------------------------------
(* Card effects on the weapons: WeaponManager.apply_card_effect and the     *)
(* weapon cards of card_effects.py                                         *)

EffectKinds == {"damage_boost", "fire_rate_boost", "reload_speed_boost",
                "magazine_size_boost", "bullet_size_boost"}

\* the values apply_card_effect is called with: -4.0 and +0.5
EffectValues == {-(4 * Units.mult), Units.mult \div 2}

WeaponCards == {"damage_boost", "fire_rate_boost", "large_magazine",
                "reload_speed", "big_bullets"}

\* the loop body with magazine_size_boost rounded to nearest instead of int()
ApplyKindRounded(s, kind, value) ==
    CASE kind = "damage_boost" ->
            [s EXCEPT !.damage_multiplier = @ + value]
      [] kind = "fire_rate_boost" ->
            [s EXCEPT !.fire_rate_multiplier = @ + value]
      [] kind = "reload_speed_boost" ->
            [s EXCEPT !.reload_time_multiplier =
                          Frac(@[1] * (Units.mult - value), @[2] * Units.mult)]
      [] kind = "magazine_size_boost" ->
            [s EXCEPT !.magazine_size_bonus =
                          @ + ((2 * value + Units.mult) \div (2 * Units.mult))]
      [] kind = "bullet_size_boost" ->
            [s EXCEPT !.bullet_size_multiplier = @ + value]
      [] OTHER -> s

\* the body of apply_card_effect's loop, for one weapon
ApplyKind(s, kind, value) ==
    CASE kind = "damage_boost" ->
            [s EXCEPT !.damage_multiplier = @ + value]
      [] kind = "fire_rate_boost" ->
            [s EXCEPT !.fire_rate_multiplier = @ + value]
      [] kind = "reload_speed_boost" ->
            [s EXCEPT !.reload_time_multiplier =
                          Frac(@[1] * (Units.mult - value), @[2] * Units.mult)]
      [] kind = "magazine_size_boost" ->
            [s EXCEPT !.magazine_size_bonus = @ + IntOfQuarters(value)]
      [] kind = "bullet_size_boost" ->
            [s EXCEPT !.bullet_size_multiplier = @ + value]
      [] OTHER -> s

\* apply_card_effect that reaches the selected weapon only
apply_card_effect_selected(ws, kind, value) ==
    [ws EXCEPT ![current_weapon_type] = ApplyKind(@, kind, value)]

apply_card_effect(ws, kind, value) ==
    [w \in WeaponTypes |-> ApplyKind(ws[w], kind, value)]

\* the magnitude each weapon card declares, in quarters:
\* damage_boost 0.25, fire_rate_boost 0.5, magazine_boost 0.5,
\* reload_speed_boost 0.5, bullet_size_boost 0.5
card_value ==
    [damage_boost |-> 1, fire_rate_boost |-> 2, large_magazine |-> 2,
     reload_speed |-> 2, big_bullets |-> 2]

\* int(weapon.magazine_size * self.magazine_boost)
MagazineBonus(w) == IntOfHalf(weapon_configs[w].magazine_size)

\* card.apply_effect(player): the weapons and the card's current_stacks after
\* the call; has_wm is hasattr(player, 'weapon_manager')
apply_effect(c, ws, n, has_wm) ==
    CASE c = "damage_boost" ->
            [weapons |-> IF has_wm
                         THEN apply_card_effect(ws, "damage_boost", card_value[c])
                         ELSE ws,
             stacks |-> n + 1]
      [] c = "fire_rate_boost" ->
            [weapons |-> IF has_wm
                         THEN apply_card_effect(ws, "fire_rate_boost", card_value[c])
                         ELSE ws,
             stacks |-> 1]
      [] c = "large_magazine" ->
            [weapons |-> IF has_wm
                         THEN [w \in WeaponTypes |->
                                 [ws[w] EXCEPT !.magazine_size_bonus = @ + MagazineBonus(w)]]
                         ELSE ws,
             stacks |-> n + 1]
      [] c = "reload_speed" ->
            [weapons |-> IF has_wm
                         THEN apply_card_effect(ws, "reload_speed_boost", card_value[c])
                         ELSE ws,
             stacks |-> 1]
      [] c = "big_bullets" ->
            [weapons |-> IF has_wm
                         THEN apply_card_effect(ws, "bullet_size_boost", card_value[c])
                         ELSE ws,
             stacks |-> 1]

\* remove_effect whose reload_speed case undoes the card like the additive
\* cards do, through apply_card_effect with the negated value
remove_effect_negated(c, ws, n, has_wm) ==
    CASE c = "damage_boost" ->
            [weapons |-> IF has_wm
                         THEN apply_card_effect(ws, "damage_boost", -(card_value[c] * n))
                         ELSE ws,
             stacks |-> 0]
      [] c = "fire_rate_boost" ->
            [weapons |-> IF has_wm
                         THEN apply_card_effect(ws, "fire_rate_boost", -card_value[c])
                         ELSE ws,
             stacks |-> 0]
      [] c = "large_magazine" ->
            [weapons |-> IF has_wm
                         THEN [w \in WeaponTypes |->
                                 [ws[w] EXCEPT !.magazine_size_bonus =
                                     @ - MagazineBonus(w) * n]]
                         ELSE ws,
             stacks |-> 0]
      [] c = "reload_speed" ->
            [weapons |-> IF has_wm
                         THEN apply_card_effect(ws, "reload_speed_boost", -card_value[c])
                         ELSE ws,
             stacks |-> 0]
      [] c = "big_bullets" ->
            [weapons |-> IF has_wm
                         THEN apply_card_effect(ws, "bullet_size_boost", -card_value[c])
                         ELSE ws,
             stacks |-> 0]

\* card.remove_effect(player)
remove_effect(c, ws, n, has_wm) ==
    CASE c = "damage_boost" ->
            [weapons |-> IF has_wm
                         THEN apply_card_effect(ws, "damage_boost", -(card_value[c] * n))
                         ELSE ws,
             stacks |-> 0]
      [] c = "fire_rate_boost" ->
            [weapons |-> IF has_wm
                         THEN apply_card_effect(ws, "fire_rate_boost", -card_value[c])
                         ELSE ws,
             stacks |-> 0]
      [] c = "large_magazine" ->
            [weapons |-> IF has_wm
                         THEN [w \in WeaponTypes |->
                                 [ws[w] EXCEPT !.magazine_size_bonus =
                                     @ - MagazineBonus(w) * n]]
                         ELSE ws,
             stacks |-> 0]
      [] c = "reload_speed" ->
            [weapons |-> IF has_wm
                         THEN [w \in WeaponTypes |->
                                 [ws[w] EXCEPT !.reload_time_multiplier =
                                     Frac(@[1] * Units.mult,
                                          @[2] * (Units.mult - card_value[c]))]]
                         ELSE ws,
             stacks |-> 0]
      [] c = "big_bullets" ->
            [weapons |-> IF has_wm
                         THEN apply_card_effect(ws, "bullet_size_boost", -card_value[c])
                         ELSE ws,
             stacks |-> 0]

---------------------------------------------------------------------------
(* The card catalog and the object cards are applied to *)

\* player fields that the source holds as floats are kept in hundredths
\* (damage_reduction 0.20 = 20, speed_multiplier 1.0 = 100); healing_rate and
\* health are whole numbers
PlayerUnits == [percent |-> 100]

\* CardManager.card_types, in the order of the dict
card_types == <<"damage_boost", "fire_rate_boost", "large_magazine", "armor",
                "fast_healing", "extra_health", "speed_boost", "double_jump",
                "high_jump", "reload_speed", "big_bullets">>

CardIds == {card_types[i] : i \in 1..Len(card_types)}

\* is_stackable and max_stacks as each card's __init__ sets them
\* (CardBase: not stackable, max_stacks 1)
card_class ==
    [c \in CardIds |->
        CASE c = "damage_boost"   -> [is_stackable |-> TRUE, max_stacks |-> 3]
          [] c = "large_magazine" -> [is_stackable |-> TRUE, max_stacks |-> 2]
          [] c = "armor"          -> [is_stackable |-> TRUE, max_stacks |-> 3]
          [] c = "extra_health"   -> [is_stackable |-> TRUE, max_stacks |-> 2]
          [] c = "speed_boost"    -> [is_stackable |-> TRUE, max_stacks |-> 2]
          [] OTHER                -> [is_stackable |-> FALSE, max_stacks |-> 1]]

\* the magnitude each player card declares: damage_reduction 0.20,
\* healing_rate 5.0, health_bonus 50, speed_multiplier 0.30, jump_boost 0.40
player_card_value ==
    [armor |-> 20, fast_healing |-> 5, extra_health |-> 50, speed_boost |-> 30,
     high_jump |-> 40]

\* the attributes a Player object has after __init__ that cards read
PlayerAttrs == {"health", "max_health", "damage_reduction", "healing_rate",
                "speed_multiplier", "jump_force_multiplier", "max_jumps"}

\* Player.__init__: the fields cards act on; attrs is what hasattr() sees
NewPlayer ==
    [attrs |-> PlayerAttrs, health |-> 100, max_health |-> 100,
     damage_reduction |-> 0, healing_rate |-> 0,
     speed_multiplier |-> PlayerUnits.percent,
     jump_force_multiplier |-> PlayerUnits.percent, max_jumps |-> 1]

Min(a, b) == IF a <= b THEN a ELSE b

\* CardBase.can_stack
can_stack(card) ==
    card_class[card.card_id].is_stackable
        /\ card.current_stacks < card_class[card.card_id].max_stacks

\* the player-card half of card.apply_effect(player): the player and the
\* card's current_stacks after the call, and whether the call raised
PlayerApply(c, p, n) ==
    LET v == player_card_value[c]
    IN  CASE c = "armor" ->
               [player |-> IF "damage_reduction" \in p.attrs
                           THEN [p EXCEPT !.damage_reduction = @ + v]
                           ELSE [p EXCEPT !.damage_reduction = v,
                                          !.attrs = @ \cup {"damage_reduction"}],
                stacks |-> n + 1, raised |-> FALSE]
          [] c = "fast_healing" ->
               [player |-> IF "healing_rate" \in p.attrs
                           THEN [p EXCEPT !.healing_rate = @ + v]
                           ELSE [p EXCEPT !.healing_rate = v,
                                          !.attrs = @ \cup {"healing_rate"}],
                stacks |-> 1, raised |-> FALSE]
          [] c = "extra_health" ->
               IF "max_health" \notin p.attrs
               THEN [player |-> p, stacks |-> n, raised |-> TRUE]
               ELSE IF "health" \notin p.attrs
               THEN [player |-> [p EXCEPT !.max_health = @ + v],
                     stacks |-> n, raised |-> TRUE]
               ELSE [player |-> [p EXCEPT !.max_health = @ + v, !.health = @ + v],
                     stacks |-> n + 1, raised |-> FALSE]
          [] c = "speed_boost" ->
               [player |-> IF "speed_multiplier" \in p.attrs
                           THEN [p EXCEPT !.speed_multiplier = @ + v]
                           ELSE [p EXCEPT !.speed_multiplier = PlayerUnits.percent + v,
                                          !.attrs = @ \cup {"speed_multiplier"}],
                stacks |-> n + 1, raised |-> FALSE]
          [] c = "double_jump" ->
               [player |-> IF "max_jumps" \in p.attrs
                           THEN [p EXCEPT !.max_jumps = 2] ELSE p,
                stacks |-> 1, raised |-> FALSE]
          [] c = "high_jump" ->
               [player |-> IF "jump_force_multiplier" \in p.attrs
                           THEN [p EXCEPT !.jump_force_multiplier = @ + v]
                           ELSE [p EXCEPT !.jump_force_multiplier =
                                              PlayerUnits.percent + v,
                                          !.attrs = @ \cup {"jump_force_multiplier"}],
                stacks |-> 1, raised |-> FALSE]

\* the player-card half of card.remove_effect(player)
PlayerRemove(c, p, n) ==
    LET v == player_card_value[c]
    IN  CASE c = "armor" ->
               [player |-> IF "damage_reduction" \in p.attrs
                           THEN [p EXCEPT !.damage_reduction = @ - v * n] ELSE p,
                stacks |-> 0, raised |-> FALSE]
          [] c = "fast_healing" ->
               [player |-> IF "healing_rate" \in p.attrs
                           THEN [p EXCEPT !.healing_rate = @ - v] ELSE p,
                stacks |-> 0, raised |-> FALSE]
          [] c = "extra_health" ->
               IF "max_health" \notin p.attrs
               THEN [player |-> p, stacks |-> n, raised |-> TRUE]
               ELSE IF "health" \notin p.attrs
               THEN [player |-> [p EXCEPT !.max_health = @ - v * n],
                     stacks |-> n, raised |-> TRUE]
               ELSE [player |-> [p EXCEPT !.max_health = @ - v * n,
                                          !.health = Min(@, p.max_health - v * n)],
                     stacks |-> 0, raised |-> FALSE]
          [] c = "speed_boost" ->
               [player |-> IF "speed_multiplier" \in p.attrs
                           THEN [p EXCEPT !.speed_multiplier = @ - v * n] ELSE p,
                stacks |-> 0, raised |-> FALSE]
          [] c = "double_jump" ->
               [player |-> IF "max_jumps" \in p.attrs
                           THEN [p EXCEPT !.max_jumps = 1] ELSE p,
                stacks |-> 0, raised |-> FALSE]
          [] c = "high_jump" ->
               [player |-> IF "jump_force_multiplier" \in p.attrs
                           THEN [p EXCEPT !.jump_force_multiplier = @ - v] ELSE p,
                stacks |-> 0, raised |-> FALSE]

\* card.apply_effect(player) for any card of the catalog: the player, the
\* weapons of player.weapon_manager and the card's current_stacks afterwards
ApplyEffectOf(c, p, ws, n) ==
    IF c \in WeaponCards
    THEN LET r == apply_effect(c, ws, n, "weapon_manager" \in p.attrs)
         IN  [player |-> p, weapons |-> r.weapons, stacks |-> r.stacks,
              raised |-> FALSE]
    ELSE LET r == PlayerApply(c, p, n)
         IN  [player |-> r.player, weapons |-> ws, stacks |-> r.stacks,
              raised |-> r.raised]

\* card.remove_effect(player) for any card of the catalog
RemoveEffectOf(c, p, ws, n) ==
    IF c \in WeaponCards
    THEN LET r == remove_effect(c, ws, n, "weapon_manager" \in p.attrs)
         IN  [player |-> p, weapons |-> r.weapons, stacks |-> r.stacks,
              raised |-> FALSE]
    ELSE LET r == PlayerRemove(c, p, n)
         IN  [player |-> r.player, weapons |-> ws, stacks |-> r.stacks,
              raised |-> r.raised]

---------------------------------------------------------------------------
(* State after construction: WeaponManager.__init__, CardManager.create_card *)

\* CardManager.__init__: player_cards = {}, no entry for the player
NoCards == [present |-> FALSE, list |-> <<>>]

Init ==
    /\ now = StartTime
    /\ NoPhysics
    /\ NoEvents
    /\ NoGame
    /\ weapons = [w \in WeaponTypes |-> NewWeapon(w)]
    /\ current_weapon_type = "pistol"
    /\ card_stacks = [c \in WeaponCards |-> 0]
    /\ card_ops = 0
    /\ switches = 0
    /\ frame = [updated |-> FALSE, shot |-> FALSE]
    /\ op = Call("init", "")
    /\ returned = "None"
    /\ emitted = <<>>
    /\ player = NewPlayer
    /\ cards = <<>>
    /\ player_cards = NoCards
    /\ before = [player |-> NewPlayer, weapons |-> weapons]
    /\ calls = <<>>

---------------------------------------------------------------------------
(* WeaponManager *)

\* the wall clock advances by dt ticks
Advance(dt) ==
    /\ now' = now + dt
    /\ op' = Call("tick", "")
    /\ returned' = "None"
    /\ emitted' = <<>>
    /\ UNCHANGED <<cardvars, othervars>> /\ UNCHANGED <<weapons, current_weapon_type, card_stacks, card_ops, switches>>

Tick ==
    /\ now + Units.second <= StartTime + MaxTime * Units.second
    /\ Advance(Units.second)
    /\ UNCHANGED frame

ShootCall ==
    LET w == current_weapon_type
        r == shoot(w, weapons[w], now)
    IN  /\ weapons' = [weapons EXCEPT ![w] = r.weapon]
        /\ op' = Call("shoot", w)
        /\ returned' = r.ret
        /\ emitted' = r.events
        /\ UNCHANGED <<cardvars, othervars>> /\ UNCHANGED <<now, current_weapon_type, card_stacks, card_ops, switches>>

Shoot == ShootCall /\ UNCHANGED frame

Reload ==
    LET w == current_weapon_type
        r == reload(w, weapons[w], now)
    IN  /\ weapons' = [weapons EXCEPT ![w] = r.weapon]
        /\ op' = Call("reload", w)
        /\ returned' = r.ret
        /\ emitted' = r.events
        /\ UNCHANGED <<cardvars, othervars>> /\ UNCHANGED <<now, current_weapon_type, card_stacks, card_ops, switches, frame>>

\* the events of updating the weapons from the i-th on, in dict order
RECURSIVE UpdateEvents(_)
UpdateEvents(i) ==
    IF i > Len(weapon_order) THEN <<>>
    ELSE update(weapon_order[i], weapons[weapon_order[i]], now).events
            \o UpdateEvents(i + 1)

\* update that advances the selected weapon only
UpdateCurrentOnly ==
    LET w == current_weapon_type
    IN  /\ weapons' = [weapons EXCEPT ![w] = update(w, weapons[w], now).weapon]
        /\ op' = Call("update", "")
        /\ returned' = "None"
        /\ emitted' = update(w, weapons[w], now).events
        /\ UNCHANGED <<cardvars, othervars>> /\ UNCHANGED <<now, current_weapon_type, card_stacks, card_ops, switches>>

UpdateCall ==
    /\ weapons' = [w \in WeaponTypes |-> update(w, weapons[w], now).weapon]
    /\ op' = Call("update", "")
    /\ returned' = "None"
    /\ emitted' = UpdateEvents(1)
    /\ UNCHANGED <<cardvars, othervars>> /\ UNCHANGED <<now, current_weapon_type, card_stacks, card_ops, switches>>

Update == UpdateCall /\ UNCHANGED frame

\* switch_weapon without the test against the current selection
switch_weapon_any(weapon_type) ==
    IF weapon_type \in WeaponTypes
    THEN /\ current_weapon_type' = weapon_type
         /\ emitted' = <<Event("weapon_switch", weapon_type)>>
         /\ returned' = "True"
    ELSE /\ current_weapon_type' = current_weapon_type
         /\ emitted' = <<>>
         /\ returned' = "False"

switch_weapon(weapon_type) ==
    IF weapon_type \in WeaponTypes /\ weapon_type # current_weapon_type
    THEN /\ current_weapon_type' = weapon_type
         /\ emitted' = <<Event("weapon_switch", weapon_type)>>
         /\ returned' = "True"
    ELSE /\ current_weapon_type' = current_weapon_type
         /\ emitted' = <<>>
         /\ returned' = "False"

IndexOf(w) == CHOOSE i \in 1..Len(weapon_order) : weapon_order[i] = w

\* a call that may switch: counted, and allowed while switches remain
Switching(target) ==
    /\ (target \in WeaponTypes /\ target # current_weapon_type) => switches < MaxSwitches
    /\ switch_weapon(target)
    /\ switches' = IF current_weapon_type' # current_weapon_type
                   THEN switches + 1 ELSE switches
    /\ UNCHANGED <<cardvars, othervars>> /\ UNCHANGED <<now, weapons, card_stacks, card_ops, frame>>

SwitchWeapon ==
    \E weapon_type \in WeaponTypes \cup {"unknown"} :
        /\ Switching(weapon_type)
        /\ op' = Call("switch_weapon", weapon_type)

NextWeapon ==
    /\ Switching(weapon_order[(IndexOf(current_weapon_type) % Len(weapon_order)) + 1])
    /\ op' = Call("next_weapon", "")

PreviousWeapon ==
    /\ Switching(weapon_order[((IndexOf(current_weapon_type) - 2) % Len(weapon_order)) + 1])
    /\ op' = Call("previous_weapon", "")

---------------------------------------------------------------------------
(* Card calls, on a player object that holds the weapon manager *)

ApplyCardEffect ==
    \E kind \in EffectKinds \cup {"unknown"}, value \in EffectValues :
        /\ card_ops < MaxEffectCalls
        /\ weapons' = apply_card_effect(weapons, kind, value)
        /\ card_ops' = card_ops + 1
        /\ op' = Call("apply_card_effect", kind)
        /\ returned' = "None"
        /\ emitted' = <<>>
        /\ calls' = <<[method |-> "apply_card_effect", effect_type |-> kind,
                       value |-> value]>>
        /\ UNCHANGED <<player, cards, player_cards, before>>
        /\ UNCHANGED <<now, current_weapon_type, card_stacks, switches, frame,
                       othervars>>

CardApplyEffect ==
    \E c \in WeaponCards :
        /\ card_ops < MaxCardOps
        /\ weapons' = apply_effect(c, weapons, card_stacks[c], TRUE).weapons
        /\ card_stacks' = [card_stacks EXCEPT
                              ![c] = apply_effect(c, weapons, @, TRUE).stacks]
        /\ card_ops' = card_ops + 1
        /\ op' = Call("apply_effect", c)
        /\ returned' = "None"
        /\ emitted' = <<>>
        /\ UNCHANGED <<cardvars, othervars>> /\ UNCHANGED <<now, current_weapon_type, switches, frame>>

CardRemoveEffect ==
    \E c \in WeaponCards :
        /\ card_ops < MaxCardOps
        /\ weapons' = remove_effect(c, weapons, card_stacks[c], TRUE).weapons
        /\ card_stacks' = [card_stacks EXCEPT
                              ![c] = remove_effect(c, weapons, @, TRUE).stacks]
        /\ card_ops' = card_ops + 1
        /\ op' = Call("remove_effect", c)
        /\ returned' = "None"
        /\ emitted' = <<>>
        /\ UNCHANGED <<cardvars, othervars>> /\ UNCHANGED <<now, current_weapon_type, switches, frame>>

\* the player picks the weapon to play with before anything else happens
SelectWeapon ==
    /\ op.name = "init"
    /\ \E weapon_type \in WeaponTypes :
          /\ switch_weapon(weapon_type)
          /\ op' = Call("switch_weapon", weapon_type)
          /\ UNCHANGED <<cardvars, othervars>> /\ UNCHANGED <<now, weapons, card_stacks, card_ops, switches, frame>>

---------------------------------------------------------------------------
(* One pistol fired on the half second, frame by frame *)

HalfSecond == Units.second \div 2

\* the times of the firing run: t = 0, 0.5, ... until the magazine is spent
ShotDue ==
    /\ (now - StartTime) % HalfSecond = 0
    /\ now - StartTime <= (weapon_configs["pistol"].magazine_size - 1) * HalfSecond

FrameUpdate ==
    /\ UpdateCall
    /\ frame' = [frame EXCEPT !.updated = TRUE]

FrameShoot ==
    /\ ShotDue
    /\ ~frame.shot
    /\ ShootCall
    /\ frame' = [frame EXCEPT !.shot = TRUE]

FrameTick ==
    /\ now < StartTime + MaxFrames
    /\ frame.updated
    /\ ShotDue => frame.shot
    /\ Advance(1)
    /\ frame' = [updated |-> FALSE, shot |-> FALSE]

---------------------------------------------------------------------------
(* One card instance applied to and removed from a target *)

\* CardManager.create_card: a fresh instance
NewCard(c) == [card_id |-> c, current_stacks |-> 0]

\* what the target looks like when the first effect is applied: full or
\* reduced health, one or two jumps, with or without a weapon_manager
StartPlayers ==
    {[NewPlayer EXCEPT !.health = h, !.max_jumps = j, !.attrs = @ \cup wm] :
        h \in {60, 100}, j \in {1, 2}, wm \in {{}, {"weapon_manager"}}}

\* the weapons as constructed, or with modifiers earlier cards left
StartWeapons ==
    LET fresh == [w \in WeaponTypes |-> NewWeapon(w)]
    IN  {fresh,
         apply_card_effect(apply_card_effect(fresh, "damage_boost", 1),
                           "reload_speed_boost", 2)}

InitRoundTrip ==
    /\ now = StartTime
    /\ NoPhysics
    /\ NoEvents
    /\ NoGame
    /\ weapons \in StartWeapons
    /\ current_weapon_type = "pistol"
    /\ card_stacks = [c \in WeaponCards |-> 0]
    /\ card_ops = 0
    /\ switches = 0
    /\ frame = [updated |-> FALSE, shot |-> FALSE]
    /\ op = Call("init", "")
    /\ returned = "None"
    /\ emitted = <<>>
    /\ player \in StartPlayers
    /\ \E c \in CardIds : cards = <<NewCard(c)>>
    /\ player_cards = NoCards
    /\ before = [player |-> player, weapons |-> weapons]
    /\ calls = <<>>

\* cards[i].apply_effect(player)
ApplyEffectOn(i) ==
    LET r == ApplyEffectOf(cards[i].card_id, player, weapons, cards[i].current_stacks)
    IN  /\ player' = r.player
        /\ weapons' = r.weapons
        /\ cards' = [cards EXCEPT ![i].current_stacks = r.stacks]

\* cards[i].remove_effect(player)
RemoveEffectOn(i) ==
    LET r == RemoveEffectOf(cards[i].card_id, player, weapons, cards[i].current_stacks)
    IN  /\ player' = r.player
        /\ weapons' = r.weapons
        /\ cards' = [cards EXCEPT ![i].current_stacks = r.stacks]

\* the run applies the card up to max_stacks times ...
RoundTripApply ==
    /\ op.name # "remove_effect"
    /\ card_ops < card_class[cards[1].card_id].max_stacks
    /\ ApplyEffectOn(1)
    /\ card_ops' = card_ops + 1
    /\ op' = Call("apply_effect", cards[1].card_id)
    /\ returned' = "None"
    /\ emitted' = <<>>
    /\ UNCHANGED <<now, current_weapon_type, card_stacks, switches, frame,
                   player_cards, before, calls, othervars>>

\* ... and then removes it once
RoundTripRemove ==
    /\ op.name # "remove_effect"
    /\ card_ops >= 1
    /\ RemoveEffectOn(1)
    /\ op' = Call("remove_effect", cards[1].card_id)
    /\ returned' = "None"
    /\ emitted' = <<>>
    /\ UNCHANGED <<now, current_weapon_type, card_stacks, card_ops, switches, frame,
                   player_cards, before, calls, othervars>>

---------------------------------------------------------------------------
(* CardManager: operations on the state h = [player, weapons, cards, list],
   where cards are the instances by identity and list is the player's entry
   of player_cards (instance identities, in acquisition order) *)

Heap == [player |-> player, weapons |-> weapons, cards |-> cards,
         player_cards |-> player_cards, log |-> <<>>]

\* CardManager.find_player_card: the first owned instance with that card_id,
\* or 0 for None
find_player_card(h, c) ==
    LET l   == h.player_cards.list
        hit == {k \in 1..Len(l) : h.cards[l[k]].card_id = c}
    IN  IF hit = {} THEN 0 ELSE l[CHOOSE k \in hit : \A m \in hit : k <= m]

\* add_card_to_player that appends the passed instance when the owned one
\* cannot stack
add_card_to_player_append(h, i) ==
    LET existing == find_player_card(h, h.cards[i].card_id)
        l        == h.player_cards.list
    IN  IF existing # 0 /\ can_stack(h.cards[existing])
        THEN [h   |-> [h EXCEPT !.cards[existing].current_stacks = @ + 1,
                                !.player_cards.present = TRUE],
              ret |-> "True"]
        ELSE [h   |-> [h EXCEPT !.cards[i].current_stacks = 1,
                                !.player_cards = [present |-> TRUE,
                                                  list |-> Append(l, i)]],
              ret |-> "True"]

\* add_card_to_player that appends a first instance without setting its
\* current_stacks
add_card_to_player_unstamped(h, i) ==
    LET existing == find_player_card(h, h.cards[i].card_id)
        l        == h.player_cards.list
    IN  IF existing # 0 /\ can_stack(h.cards[existing])
        THEN [h   |-> [h EXCEPT !.cards[existing].current_stacks = @ + 1,
                                !.player_cards.present = TRUE],
              ret |-> "True"]
        ELSE IF existing = 0
        THEN [h   |-> [h EXCEPT !.player_cards = [present |-> TRUE,
                                                  list |-> Append(l, i)]],
              ret |-> "True"]
        ELSE [h   |-> [h EXCEPT !.player_cards.present = TRUE],
              ret |-> "False"]

\* CardManager.add_card_to_player(player_id, cards[i])
add_card_to_player(h, i) ==
    LET existing == find_player_card(h, h.cards[i].card_id)
        l        == h.player_cards.list
    IN  IF existing # 0 /\ can_stack(h.cards[existing])
        THEN [h   |-> [h EXCEPT !.cards[existing].current_stacks = @ + 1,
                                !.player_cards.present = TRUE],
              ret |-> "True"]
        ELSE IF existing = 0
        THEN [h   |-> [h EXCEPT !.cards[i].current_stacks = 1,
                                !.player_cards = [present |-> TRUE,
                                                  list |-> Append(l, i)]],
              ret |-> "True"]
        ELSE [h   |-> [h EXCEPT !.player_cards.present = TRUE],
              ret |-> "False"]

\* cards[i].apply_effect(h.player) on the state h
ApplyOn(h, i) ==
    LET r == ApplyEffectOf(h.cards[i].card_id, h.player, h.weapons,
                           h.cards[i].current_stacks)
    IN  [h |-> [h EXCEPT !.player = r.player, !.weapons = r.weapons,
                         !.cards[i].current_stacks = r.stacks],
         raised |-> r.raised]

\* cards[i].remove_effect(h.player) on the state h
RemoveOn(h, i) ==
    LET r == RemoveEffectOf(h.cards[i].card_id, h.player, h.weapons,
                            h.cards[i].current_stacks)
    IN  [h |-> [h EXCEPT !.player = r.player, !.weapons = r.weapons,
                         !.cards[i].current_stacks = r.stacks],
         raised |-> r.raised]

\* CardManager.apply_card_to_player(player_id, cards[i], player): the effect,
\* then the card_apply event; an exception is caught and False returned
apply_card_to_player(h, i) ==
    LET r == ApplyOn(h, i)
    IN  [h      |-> r.h,
         events |-> IF r.raised THEN <<>>
                    ELSE <<Event("card_apply", h.cards[i].card_id)>>,
         ret    |-> IF r.raised THEN "False" ELSE "True"]

\* one remove_effect call of the loop, noted in the log
Removed(h, i) ==
    [RemoveOn(h, i).h EXCEPT
        !.log = Append(@, [method |-> "remove_effect", card |-> i,
                           raised |-> RemoveOn(h, i).raised])]

\* the loop abandoned at the first remove_effect that raises
RECURSIVE RemoveFromUntilRaise(_, _, _)
RemoveFromUntilRaise(h, l, k) ==
    IF k > Len(l) THEN h
    ELSE IF RemoveOn(h, l[k]).raised THEN Removed(h, l[k])
    ELSE RemoveFromUntilRaise(Removed(h, l[k]), l, k + 1)

\* the loop of remove_all_cards_from_player over the owned instances from
\* position k on: each remove_effect is tried, an exception is logged
RECURSIVE RemoveFrom(_, _, _)
RemoveFrom(h, l, k) ==
    IF k > Len(l) THEN h ELSE RemoveFrom(Removed(h, l[k]), l, k + 1)

\* CardManager.remove_all_cards_from_player(player_id, player)
remove_all_cards_from_player(h) ==
    [RemoveFrom(h, h.player_cards.list, 1) EXCEPT !.player_cards = NoCards]

\* the state h becomes the next state
Becomes(h) ==
    /\ player' = h.player
    /\ weapons' = h.weapons
    /\ cards' = h.cards
    /\ player_cards' = h.player_cards

---------------------------------------------------------------------------
(* CardManager calls and the game's card-selection callback *)

\* the objects the manager is handed as player_obj: a Player, a Player that
\* also holds the weapon manager, an object with max_health but no health,
\* and an object with none of the attributes
ManagerTargets ==
    {[NewPlayer EXCEPT !.attrs = a] :
        a \in {PlayerAttrs, PlayerAttrs \cup {"weapon_manager"},
               PlayerAttrs \ {"health"}, {}}}

\* the player object of the game, with the weapon manager in reach or not
GameTargets ==
    {[NewPlayer EXCEPT !.attrs = a] :
        a \in {PlayerAttrs, PlayerAttrs \cup {"weapon_manager"}}}

InitCards(targets) ==
    /\ now = StartTime
    /\ NoPhysics
    /\ NoEvents
    /\ NoGame
    /\ weapons = [w \in WeaponTypes |-> NewWeapon(w)]
    /\ current_weapon_type = "pistol"
    /\ card_stacks = [c \in WeaponCards |-> 0]
    /\ card_ops = 0
    /\ switches = 0
    /\ frame = [updated |-> FALSE, shot |-> FALSE]
    /\ op = Call("init", "")
    /\ returned = "None"
    /\ emitted = <<>>
    /\ player \in targets
    /\ cards = <<>>
    /\ player_cards = NoCards
    /\ before = [player |-> player, weapons |-> weapons]
    /\ calls = <<>>

InitManager == InitCards(ManagerTargets)

InitAcquire == InitCards(GameTargets)

\* what no card manager call touches
ManagerFrame ==
    UNCHANGED <<now, current_weapon_type, card_stacks, switches, frame, before, othervars>>

\* Game._on_card_selected: create_card, add_card_to_player, then
\* apply_card_to_player on the created instance, whatever add returned
OnCardSelected ==
    \E c \in CardIds :
        LET i == Len(cards) + 1
            a == add_card_to_player([Heap EXCEPT !.cards = Append(cards, NewCard(c))], i)
            b == apply_card_to_player(a.h, i)
        IN  /\ Len(cards) < MaxCards
            /\ Becomes(b.h)
            /\ card_ops' = card_ops + 1
            /\ op' = Call("_on_card_selected", c)
            /\ returned' = "None"
            /\ emitted' = b.events
            /\ calls' = <<[method |-> "add_card_to_player", card |-> i, ret |-> a.ret],
                          [method |-> "apply_card_to_player", card |-> i, ret |-> b.ret]>>
            /\ ManagerFrame

\* the card that changes what a reload refills
MagazineCards == {"large_magazine"}

\* Game._on_card_selected with a magazine card
OnMagazineCardSelected ==
    \E c \in MagazineCards :
        LET i == Len(cards) + 1
            a == add_card_to_player([Heap EXCEPT !.cards = Append(cards, NewCard(c))], i)
            b == apply_card_to_player(a.h, i)
        IN  /\ Len(cards) < MaxCards
            /\ Becomes(b.h)
            /\ card_ops' = card_ops + 1
            /\ op' = Call("_on_card_selected", c)
            /\ returned' = "None"
            /\ emitted' = b.events
            /\ calls' = <<[method |-> "add_card_to_player", card |-> i, ret |-> a.ret],
                          [method |-> "apply_card_to_player", card |-> i, ret |-> b.ret]>>
            /\ ManagerFrame

\* remove_all_cards_from_player(player_id, player)
RemoveAllCards ==
    /\ Becomes(remove_all_cards_from_player(Heap))
    /\ op' = Call("remove_all_cards_from_player", "")
    /\ returned' = "None"
    /\ emitted' = <<>>
    /\ calls' = remove_all_cards_from_player(Heap).log
    /\ UNCHANGED card_ops
    /\ ManagerFrame

\* add_card_to_player with a card just created, or with an instance seen before
AddCardToPlayer ==
    /\ card_ops < MaxManagerCalls
    /\ \/ \E c \in CardIds :
            LET i == Len(cards) + 1
                a == add_card_to_player([Heap EXCEPT !.cards = Append(cards, NewCard(c))], i)
            IN  /\ Len(cards) < MaxCards
                /\ Becomes(a.h)
                /\ op' = Call("add_card_to_player", c)
                /\ returned' = a.ret
                /\ calls' = <<[method |-> "add_card_to_player", card |-> i, ret |-> a.ret]>>
       \/ \E i \in 1..Len(cards) :
            LET a == add_card_to_player(Heap, i)
            IN  /\ Becomes(a.h)
                /\ op' = Call("add_card_to_player", cards[i].card_id)
                /\ returned' = a.ret
                /\ calls' = <<[method |-> "add_card_to_player", card |-> i, ret |-> a.ret]>>
    /\ card_ops' = card_ops + 1
    /\ emitted' = <<>>
    /\ ManagerFrame

\* cards[i].add_stack()
AddStack ==
    \E i \in 1..Len(cards) :
        /\ card_ops < MaxManagerCalls
        /\ cards' = IF can_stack(cards[i])
                    THEN [cards EXCEPT ![i].current_stacks = @ + 1] ELSE cards
        /\ returned' = IF can_stack(cards[i]) THEN "True" ELSE "False"
        /\ op' = Call("add_stack", cards[i].card_id)
        /\ calls' = <<[method |-> "add_stack", card |-> i, ret |-> returned']>>
        /\ card_ops' = card_ops + 1
        /\ emitted' = <<>>
        /\ UNCHANGED <<player, weapons, player_cards>>
        /\ ManagerFrame

\* cards[i].apply_effect(player), called directly
ApplyEffect ==
    \E i \in 1..Len(cards) :
        LET r == ApplyOn(Heap, i)
        IN  /\ card_ops < MaxManagerCalls
            /\ Becomes(r.h)
            /\ returned' = IF r.raised THEN "AttributeError" ELSE "None"
            /\ op' = Call("apply_effect", cards[i].card_id)
            /\ calls' = <<[method |-> "apply_effect", card |-> i, ret |-> returned']>>
            /\ card_ops' = card_ops + 1
            /\ emitted' = <<>>
            /\ ManagerFrame

\* cards[i].remove_effect(player), called directly
RemoveEffect ==
    \E i \in 1..Len(cards) :
        LET r == RemoveOn(Heap, i)
        IN  /\ card_ops < MaxManagerCalls
            /\ Becomes(r.h)
            /\ returned' = IF r.raised THEN "AttributeError" ELSE "None"
            /\ op' = Call("remove_effect", cards[i].card_id)
            /\ calls' = <<[method |-> "remove_effect", card |-> i, ret |-> returned']>>
            /\ card_ops' = card_ops + 1
            /\ emitted' = <<>>
            /\ ManagerFrame

\* apply_card_to_player(player_id, cards[i], player)
ApplyCardToPlayer ==
    \E i \in 1..Len(cards) :
        LET r == apply_card_to_player(Heap, i)
        IN  /\ card_ops < MaxManagerCalls
            /\ Becomes(r.h)
            /\ returned' = r.ret
            /\ op' = Call("apply_card_to_player", cards[i].card_id)
            /\ calls' = <<[method |-> "apply_card_to_player", card |-> i, ret |-> r.ret]>>
            /\ card_ops' = card_ops + 1
            /\ emitted' = r.events
            /\ ManagerFrame

\* remove_all_cards_from_player as one of the bounded manager calls
RemoveAllCall ==
    /\ card_ops < MaxManagerCalls
    /\ Becomes(remove_all_cards_from_player(Heap))
    /\ op' = Call("remove_all_cards_from_player", "")
    /\ returned' = "None"
    /\ emitted' = <<>>
    /\ calls' = remove_all_cards_from_player(Heap).log
    /\ card_ops' = card_ops + 1
    /\ ManagerFrame


---------------------------------------------------------------------------
(* CardManager.get_random_cards *)

\* the largest count asked for
MaxCount == 3

\* exclude lists leave at most this many ids, or are empty
MaxAvailable == 4

\* the keys of rarity_weights in insertion order: the sort key is the
\* position of a card's rarity in this list
rarity_order == <<"common", "rare", "epic", "legendary">>

\* the rarity each card class passes to CardBase.__init__
card_rarity ==
    [c \in CardIds |->
        CASE c \in {"damage_boost", "large_magazine", "armor", "speed_boost"} -> "common"
          [] c \in {"fire_rate_boost", "fast_healing", "high_jump", "reload_speed"} -> "rare"
          [] OTHER -> "epic"]

Range(s) == {s[i] : i \in 1..Len(s)}

\* the catalog ids not excluded, in catalog order
available_cards(exclude) == SelectSeq(card_types, LAMBDA c : c \notin exclude)

\* every outcome random.sample(population, k) can produce: k distinct
\* elements in any order
random_sample(population, k) ==
    {s \in [1..k -> Range(population)] : \A i, j \in 1..k : s[i] = s[j] => i = j}

\* create_card: a new instance, or nothing for an unknown id
create_card(c) == IF c \in CardIds THEN <<NewCard(c)>> ELSE <<>>

RECURSIVE create_cards(_)
create_cards(ids) ==
    IF ids = <<>> THEN <<>>
    ELSE create_card(Head(ids)) \o create_cards(Tail(ids))

\* the position of a rarity among the keys of rarity_weights, counted from 1
rarity_index(r) == CHOOSE i \in 1..Len(rarity_order) : rarity_order[i] = r

rarity_key_reversed(card) == 0 - rarity_index(card_rarity[card.card_id])

\* the sort key: list(self.rarity_weights.keys()).index(c.rarity)
rarity_key(card) == rarity_index(card_rarity[card.card_id])

\* list.sort is stable: a card goes behind every card whose key is not larger
RECURSIVE insert_by_rarity(_, _)
insert_by_rarity(sorted, card) ==
    IF sorted = <<>> THEN <<card>>
    ELSE IF rarity_key(Head(sorted)) <= rarity_key(card)
         THEN <<Head(sorted)>> \o insert_by_rarity(Tail(sorted), card)
         ELSE <<card>> \o sorted

RECURSIVE sort_by_rarity(_)
sort_by_rarity(cs) ==
    IF cs = <<>> THEN <<>>
    ELSE insert_by_rarity(sort_by_rarity(SubSeq(cs, 1, Len(cs) - 1)), cs[Len(cs)])

\* the count after the clamp to the number of available ids
sample_size(count, exclude) == Min(count, Len(available_cards(exclude)))

\* the cards returned when random.sample produced the given ids
get_random_cards(sample) == sort_by_rarity(create_cards(sample))

\* the exclude lists tried: none, or all but a few ids
ExcludeLists ==
    {e \in SUBSET CardIds : e = {} \/ Cardinality(CardIds \ e) <= MaxAvailable}

\* the cards a player may already own when the selection is drawn
OwnedHeaps == {<<>>, <<[card_id |-> "damage_boost", current_stacks |-> 2]>>}

InitRandom ==
    /\ now = StartTime
    /\ NoPhysics
    /\ NoEvents
    /\ NoGame
    /\ weapons = [w \in WeaponTypes |-> NewWeapon(w)]
    /\ current_weapon_type = "pistol"
    /\ card_stacks = [c \in WeaponCards |-> 0]
    /\ card_ops = 0
    /\ switches = 0
    /\ frame = [updated |-> FALSE, shot |-> FALSE]
    /\ op = Call("init", "")
    /\ returned = "None"
    /\ emitted = <<>>
    /\ player = NewPlayer
    /\ cards \in OwnedHeaps
    /\ player_cards = IF cards = <<>> THEN NoCards ELSE [present |-> TRUE, list |-> <<1>>]
    /\ before = [player |-> NewPlayer, weapons |-> weapons]
    /\ \E count \in 0..MaxCount, exclude \in ExcludeLists :
          calls = <<[count |-> count, exclude |-> exclude]>>

\* get_random_cards(count, exclude_cards): the created instances join the
\* heap and the returned list names them
GetRandomCards ==
    /\ op.name = "init"
    /\ LET count == calls[1].count
           exclude == calls[1].exclude
       IN \E sample \in random_sample(available_cards(exclude), sample_size(count, exclude)) :
            LET result == get_random_cards(sample)
            IN /\ cards' = cards \o result
               /\ calls' = <<[count |-> count, exclude |-> exclude, sample |-> sample,
                              heap |-> Len(cards),
                              result |-> [i \in 1..Len(result) |-> Len(cards) + i]]>>
    /\ op' = Call("get_random_cards", "")
    /\ returned' = "list"
    /\ UNCHANGED <<now, weapons, current_weapon_type, card_stacks, card_ops, switches,
                   frame, emitted, player, player_cards, before, othervars>>


\* CardManager.rarity_weights
rarity_weights == [common |-> 50, rare |-> 30, epic |-> 15, legendary |-> 5]

\* _card_rarity_map filtered by a rarity, in catalog order
rarity_cards(rarity) == SelectSeq(card_types, LAMBDA c : card_rarity[c] = rarity)

\* every outcome of one pass of the loop of get_weighted_random_cards: the
\* rarity that random.choices draws, any key of positive weight, and the id
\* that random.choice takes among the cards of that rarity, or no id when
\* there is no such card
DrawOutcomes ==
    {d \in [rarity : {r \in DOMAIN rarity_weights : rarity_weights[r] > 0},
            card_id : CardIds \cup {"none"}] :
        IF rarity_cards(d.rarity) = <<>> THEN d.card_id = "none"
        ELSE d.card_id \in Range(rarity_cards(d.rarity))}

\* the cards returned for the outcomes of the passes: a pass without a card
\* appends nothing
RECURSIVE get_weighted_random_cards(_)
get_weighted_random_cards(draws) ==
    IF draws = <<>> THEN <<>>
    ELSE (IF Head(draws).card_id = "none" THEN <<>> ELSE create_card(Head(draws).card_id))
         \o get_weighted_random_cards(Tail(draws))

InitWeighted ==
    /\ now = StartTime
    /\ NoPhysics
    /\ NoEvents
    /\ NoGame
    /\ weapons = [w \in WeaponTypes |-> NewWeapon(w)]
    /\ current_weapon_type = "pistol"
    /\ card_stacks = [c \in WeaponCards |-> 0]
    /\ card_ops = 0
    /\ switches = 0
    /\ frame = [updated |-> FALSE, shot |-> FALSE]
    /\ op = Call("init", "")
    /\ returned = "None"
    /\ emitted = <<>>
    /\ player = NewPlayer
    /\ cards \in OwnedHeaps
    /\ player_cards = IF cards = <<>> THEN NoCards ELSE [present |-> TRUE, list |-> <<1>>]
    /\ before = [player |-> NewPlayer, weapons |-> weapons]
    /\ \E count \in 0..MaxCount : calls = <<[count |-> count]>>

\* get_weighted_random_cards(count)
GetWeightedRandomCards ==
    /\ op.name = "init"
    /\ \E draws \in [1..calls[1].count -> DrawOutcomes] :
         \E result \in {get_weighted_random_cards(draws)} :
            /\ cards' = cards \o result
            /\ calls' = <<[count |-> calls[1].count, draws |-> draws, heap |-> Len(cards),
                           result |-> [i \in 1..Len(result) |-> Len(cards) + i]]>>
    /\ op' = Call("get_weighted_random_cards", "")
    /\ returned' = "list"
    /\ UNCHANGED <<now, weapons, current_weapon_type, card_stacks, card_ops, switches,
                   frame, emitted, player, player_cards, before, othervars>>


---------------------------------------------------------------------------
(* PhysicsSystem.  A float is an exact fraction <<numerator, denominator>>
   in lowest terms with a positive denominator. *)

Q(n) == <<n, 1>>
QNeg(a) == <<0 - a[1], a[2]>>

\* sums and comparisons over the least common denominator, products with the
\* common factors cancelled first: the same values with smaller integers
QAdd(a, b) ==
    LET g == Gcd(a[2], b[2])
    IN Frac(a[1] * (b[2] \div g) + b[1] * (a[2] \div g), (a[2] \div g) * b[2])
QSub(a, b) == QAdd(a, QNeg(b))
QMul(a, b) ==
    LET g1 == Gcd(Abs(a[1]), b[2])
        g2 == Gcd(Abs(b[1]), a[2])
    IN Frac((a[1] \div g1) * (b[1] \div g2), (a[2] \div g2) * (b[2] \div g1))
QDiv(a, b) == QMul(a, IF b[1] < 0 THEN <<0 - b[2], 0 - b[1]>> ELSE <<b[2], b[1]>>)
QLess(a, b) ==
    LET g == Gcd(a[2], b[2])
    IN a[1] * (b[2] \div g) < b[1] * (a[2] \div g)
QMin(a, b) == IF QLess(b, a) THEN b ELSE a

\* x // n for an integer n > 0, then int()
QFloorDiv(a, n) == a[1] \div (a[2] * n)

\* Vector2 and its operators
Vector2(x, y) == [x |-> x, y |-> y]
VZero == Vector2(Q(0), Q(0))
VAdd(u, v) == Vector2(QAdd(u.x, v.x), QAdd(u.y, v.y))
VSub(u, v) == Vector2(QSub(u.x, v.x), QSub(u.y, v.y))
VMul(u, scalar) == Vector2(QMul(u.x, scalar), QMul(u.y, scalar))
VDiv(u, scalar) ==
    IF scalar # Q(0) THEN Vector2(QDiv(u.x, scalar), QDiv(u.y, scalar)) ELSE VZero
dot(u, v) == QAdd(QMul(u.x, v.x), QMul(u.y, v.y))
length_squared(u) == dot(u, u)

\* u.length_squared() < t for a threshold t of at most one: a coordinate of
\* magnitude one or more decides without squaring
QAbs(a) == <<Abs(a[1]), a[2]>>
Long(u) == ~QLess(QAbs(u.x), Q(1)) \/ ~QLess(QAbs(u.y), Q(1))
length_squared_less(u, t) == ~Long(u) /\ QLess(length_squared(u), t)

\* collision_mask 0xFFFFFFFF: a mask is the set of the layers whose bit is set
AllLayers == 0..31

\* PhysicsBody.__init__ for integer arguments; is_trigger and needs_update,
\* which are written and never read, are left out
PhysicsBody(x, y, width, height) ==
    [position |-> Vector2(Q(x), Q(y)),
     velocity |-> VZero,
     acceleration |-> VZero,
     width |-> Q(width),
     height |-> Q(height),
     mass |-> Q(1),
     friction |-> <<19, 20>>,
     restitution |-> <<3, 10>>,
     is_static |-> FALSE,
     is_grounded |-> FALSE,
     affected_by_gravity |-> TRUE,
     collision_layer |-> 0,
     collision_mask |-> AllLayers,
     last_position |-> Vector2(Q(x), Q(y)),
     sleep_threshold |-> <<1, 10>>,
     is_sleeping |-> FALSE]

\* PhysicsSystem.gravity = Vector2(0, config.gravity)
gravity == Vector2(Q(0), Q(980))

hash_cell_size == 64

wake_up(body) == [body EXCEPT !.is_sleeping = FALSE]

can_sleep_moving(body) ==
    /\ ~body.is_static
    /\ length_squared_less(body.acceleration, body.sleep_threshold)

can_sleep(body) ==
    /\ ~body.is_static
    /\ length_squared_less(body.velocity, body.sleep_threshold)
    /\ length_squared_less(body.acceleration, body.sleep_threshold)

\* _update_body: gravity, velocity, friction, position, then the
\* acceleration is reset
_update_body(body, dt) ==
    IF body.is_static THEN body
    ELSE LET acc == IF body.affected_by_gravity
                    THEN VAdd(body.acceleration, gravity) ELSE body.acceleration
             v1 == VAdd(body.velocity, VMul(acc, dt))
             v2 == IF body.is_grounded
                   THEN Vector2(QMul(v1.x, body.friction), v1.y) ELSE v1
             p2 == VAdd(body.position, VMul(v2, dt))
         IN [body EXCEPT
                !.velocity = v2,
                !.last_position = body.position,
                !.position = p2,
                !.acceleration = VZero]

\* the loop of update over the bodies: an awake body moves and may fall
\* asleep, a sleeping one is passed over
integrate(body, dt) ==
    IF body.is_sleeping THEN body
    ELSE LET b == _update_body(body, dt)
         IN IF can_sleep(b) THEN [b EXCEPT !.is_sleeping = TRUE] ELSE b


\* _get_hash_coordinates: the cells between the cells of two opposite corners
_get_hash_coordinates(body) ==
    LET half_w == QDiv(body.width, Q(2))
        half_h == QDiv(body.height, Q(2))
        min_x == QFloorDiv(QSub(body.position.x, half_w), hash_cell_size)
        max_x == QFloorDiv(QAdd(body.position.x, half_w), hash_cell_size)
        min_y == QFloorDiv(QSub(body.position.y, half_h), hash_cell_size)
        max_y == QFloorDiv(QAdd(body.position.y, half_h), hash_cell_size)
    IN (min_x..max_x) \X (min_y..max_y)

_can_collide_one_way(body_a, body_b) == body_b.collision_layer \in body_a.collision_mask

\* _can_collide: mask & (1 << layer) != 0 in both directions
_can_collide(body_a, body_b) ==
    /\ body_b.collision_layer \in body_a.collision_mask
    /\ body_a.collision_layer \in body_b.collision_mask

Max(a, b) == IF a >= b THEN a ELSE b

\* the first loop of the broad phase: each awake, non-static body is entered,
\* in list order, into every cell it covers
hashed(bs) ==
    LET entered == {i \in 1..Len(bs) : ~(bs[i].is_sleeping \/ bs[i].is_static)}
        cells == UNION {_get_hash_coordinates(bs[i]) : i \in entered}
    IN [c \in cells |->
          SelectSeq([i \in 1..Len(bs) |-> i],
                    LAMBDA i : i \in entered /\ c \in _get_hash_coordinates(bs[i]))]

\* the second loop: the pairs of one cell that may collide
cell_pairs(bs, cell_bodies) ==
    {<<Min(cell_bodies[i], cell_bodies[j]), Max(cell_bodies[i], cell_bodies[j])>> :
        <<i, j>> \in {p \in (1..Len(cell_bodies)) \X (1..Len(cell_bodies)) :
                        /\ p[1] < p[2]
                        /\ _can_collide(bs[cell_bodies[p[1]]], bs[cell_bodies[p[2]]])}}

\* _broad_phase_collision_detection
_broad_phase_collision_detection(bs) ==
    LET h == hashed(bs)
    IN [spatial_hash |-> h,
        collision_pairs |-> UNION {cell_pairs(bs, h[c]) : c \in DOMAIN h}]


overlap_from_first(low_a, high_a, low_b, high_b) == QSub(high_a, low_b)

\* the overlap of two intervals that intersect: min(a_high - b_low, b_high - a_low)
overlap_along(low_a, high_a, low_b, high_b) ==
    QMin(QSub(high_a, low_b), QSub(high_b, low_a))

\* _check_aabb_collision: nothing, or the normal and the penetration depth
_check_aabb_collision(body_a, body_b) ==
    LET a_left == QSub(body_a.position.x, QDiv(body_a.width, Q(2)))
        a_right == QAdd(body_a.position.x, QDiv(body_a.width, Q(2)))
        a_top == QSub(body_a.position.y, QDiv(body_a.height, Q(2)))
        a_bottom == QAdd(body_a.position.y, QDiv(body_a.height, Q(2)))
        b_left == QSub(body_b.position.x, QDiv(body_b.width, Q(2)))
        b_right == QAdd(body_b.position.x, QDiv(body_b.width, Q(2)))
        b_top == QSub(body_b.position.y, QDiv(body_b.height, Q(2)))
        b_bottom == QAdd(body_b.position.y, QDiv(body_b.height, Q(2)))
        overlap_x == overlap_along(a_left, a_right, b_left, b_right)
        overlap_y == overlap_along(a_top, a_bottom, b_top, b_bottom)
    IN IF /\ QLess(b_left, a_right) /\ QLess(a_left, b_right)
          /\ QLess(b_top, a_bottom) /\ QLess(a_top, b_bottom)
       THEN IF QLess(overlap_x, overlap_y)
            THEN <<[normal |-> Vector2(IF QLess(a_left, b_left) THEN Q(-1) ELSE Q(1), Q(0)),
                    penetration |-> overlap_x]>>
            ELSE <<[normal |-> Vector2(Q(0), IF QLess(a_top, b_top) THEN Q(-1) ELSE Q(1)),
                    penetration |-> overlap_y]>>
       ELSE <<>>

\* the orders in which a set can be iterated
Orders(S) ==
    {s \in [1..Cardinality(S) -> S] : \A i, j \in 1..Cardinality(S) : s[i] = s[j] => i = j}

\* _narrow_phase_collision_detection over the pairs in the order iterated
RECURSIVE _narrow_phase_collision_detection(_, _)
_narrow_phase_collision_detection(bs, pairs) ==
    IF pairs = <<>> THEN <<>>
    ELSE LET idx_a == Head(pairs)[1]
             idx_b == Head(pairs)[2]
             info == _check_aabb_collision(bs[idx_a], bs[idx_b])
         IN (IF info = <<>> THEN <<>>
             ELSE <<[body_a |-> idx_a, body_b |-> idx_b,
                     normal |-> info[1].normal, penetration |-> info[1].penetration]>>)
            \o _narrow_phase_collision_detection(bs, Tail(pairs))

\* the position correction of _resolve_collision
corrected(body_a, body_b, collision) ==
    IF ~body_a.is_static /\ ~body_b.is_static
    THEN LET correction == VMul(collision.normal, QDiv(collision.penetration, Q(2)))
         IN <<[body_a EXCEPT !.position = VSub(body_a.position, correction)],
              [body_b EXCEPT !.position = VAdd(body_b.position, correction)]>>
    ELSE LET correction == VMul(collision.normal, collision.penetration)
         IN IF ~body_a.is_static
            THEN <<[body_a EXCEPT !.position = VSub(body_a.position, correction)], body_b>>
            ELSE IF ~body_b.is_static
            THEN <<body_a, [body_b EXCEPT !.position = VAdd(body_b.position, correction)]>>
            ELSE <<body_a, body_b>>

\* the grounding at the end of _resolve_collision
grounded(body, collision) ==
    IF QLess(collision.normal.y, <<-1, 2>>) /\ ~body.is_static
    THEN [body EXCEPT !.is_grounded = TRUE] ELSE body

restitution_of_larger(body_a, body_b) ==
    IF QLess(body_a.restitution, body_b.restitution)
    THEN body_b.restitution ELSE body_a.restitution

\* min(body_a.restitution, body_b.restitution)
restitution_of(body_a, body_b) == QMin(body_a.restitution, body_b.restitution)

\* the velocity of body_a relative to body_b along the normal
velocity_along_normal(body_a, body_b, collision) ==
    dot(VSub(body_a.velocity, body_b.velocity), collision.normal)

\* 1 / body_a.mass + 1 / body_b.mass
inverse_mass_sum(body_a, body_b) ==
    QAdd(QDiv(Q(1), body_a.mass), QDiv(Q(1), body_b.mass))

\* normal * impulse_magnitude
impulse_of(body_a, body_b, collision) ==
    VMul(collision.normal,
         QDiv(QMul(QNeg(QAdd(Q(1), restitution_of(body_a, body_b))),
                   velocity_along_normal(body_a, body_b, collision)),
              inverse_mass_sum(body_a, body_b)))

\* the impulse applied to the two velocities, then the grounding
apply_impulse(body_a, body_b, collision, impulse) ==
    [a |-> grounded([body_a EXCEPT
                        !.velocity = VAdd(body_a.velocity, VDiv(impulse, body_a.mass))],
                    collision),
     b |-> grounded([body_b EXCEPT
                        !.velocity = VSub(body_b.velocity, VDiv(impulse, body_b.mass))],
                    collision),
     ended |-> "impulse", raised |-> FALSE]

\* _resolve_collision from the test for a static body on
respond(body_a, body_b, collision) ==
    IF body_a.is_static \/ body_b.is_static
    THEN [a |-> grounded(body_a, collision), b |-> grounded(body_b, collision),
          ended |-> "static", raised |-> FALSE]
    ELSE IF QLess(Q(0), velocity_along_normal(body_a, body_b, collision))
    THEN [a |-> body_a, b |-> body_b, ended |-> "separating", raised |-> FALSE]
    ELSE IF \/ body_a.mass = Q(0) \/ body_b.mass = Q(0)
            \/ inverse_mass_sum(body_a, body_b) = Q(0)
    THEN [a |-> body_a, b |-> body_b, ended |-> "raised", raised |-> TRUE]
    ELSE apply_impulse(body_a, body_b, collision, impulse_of(body_a, body_b, collision))

\* _resolve_collision on the two bodies of a collision: both are woken and
\* moved by the position correction, then the velocities respond; the result
\* is the bodies it leaves, how it ended, and whether it raised
_resolve_collision(a0, b0, collision) ==
    respond(corrected(wake_up(a0), wake_up(b0), collision)[1],
            corrected(wake_up(a0), wake_up(b0), collision)[2], collision)

\* the bodies after the resolution r of collision c, and what the log keeps
\* of it: the two bodies before and after
resolved_one(bs, c, r) ==
    [bodies |-> [bs EXCEPT ![c.body_a] = r.a, ![c.body_b] = r.b],
     entry |-> [collision |-> c, ended |-> r.ended,
                a_before |-> bs[c.body_a], b_before |-> bs[c.body_b],
                a_after |-> r.a, b_after |-> r.b],
     raised |-> r.raised]

\* _resolve_collisions from the k-th collision on, until one raises
RECURSIVE _resolve_collisions(_, _, _, _)
resolve_rest(s, collisions, k, log) ==
    IF s.raised
    THEN [bodies |-> s.bodies, log |-> Append(log, s.entry), raised |-> TRUE]
    ELSE _resolve_collisions(s.bodies, collisions, k + 1, Append(log, s.entry))

_resolve_collisions(bs, collisions, k, log) ==
    IF k > Len(collisions) THEN [bodies |-> bs, log |-> log, raised |-> FALSE]
    ELSE resolve_rest(resolved_one(bs, collisions[k],
                                   _resolve_collision(bs[collisions[k].body_a],
                                                      bs[collisions[k].body_b],
                                                      collisions[k])),
                      collisions, k, log)


\* the most update calls in a run
MaxUpdates == 2

\* the frame times passed to update: a tenth of a second
Dts == {<<1, 10>>}

\* the first body: 40 x 40 at (120, 100), at rest, drifting, moving right or
\* moving up
FirstBodies ==
    {[PhysicsBody(120, 100, 40, 40) EXCEPT
         !.velocity = v, !.affected_by_gravity = g, !.is_static = s,
         !.restitution = e, !.mass = m, !.collision_mask = k] :
       v \in {VZero, Vector2(Q(0), <<1, 4>>), Vector2(Q(100), Q(0)), Vector2(Q(0), Q(-50))},
       g \in BOOLEAN, s \in BOOLEAN, e \in {<<3, 10>>, <<1, 2>>},
       m \in {Q(1), Q(2)}, k \in {AllLayers, {0}}}

\* where the second body is: overlapping the first from the right, from
\* below, exactly on it, narrower with the same left edge, beside it in a
\* shared cell, or far away
SecondPlaces ==
    {PhysicsBody(150, 100, 40, 40), PhysicsBody(120, 130, 40, 40),
     PhysicsBody(120, 100, 40, 40), PhysicsBody(110, 100, 20, 40),
     PhysicsBody(170, 100, 40, 40), PhysicsBody(400, 100, 40, 40)}

\* the layer and mask of the second body: the defaults, another layer, or a
\* mask without the layer of the first body
SecondLayers ==
    {[layer |-> 0, mask |-> AllLayers], [layer |-> 1, mask |-> AllLayers],
     [layer |-> 0, mask |-> {1}]}

SecondBodies ==
    {[b EXCEPT !.velocity = v, !.affected_by_gravity = g, !.is_static = s,
               !.collision_layer = l.layer, !.collision_mask = l.mask] :
       b \in SecondPlaces, v \in {VZero, Vector2(Q(-100), Q(0))},
       g \in BOOLEAN, s \in BOOLEAN, l \in SecondLayers}

\* a third body over the corner of the first
ThirdBody == PhysicsBody(135, 115, 40, 40)

\* the bodies of a run: any first and second body, or three dynamic bodies
\* of the default mass, restitution, layer and mask
StartBodies ==
    {<<a, b>> : a \in FirstBodies, b \in SecondBodies}
    \cup {<<a, b, ThirdBody>> :
            a \in {x \in FirstBodies :
                     /\ ~x.is_static /\ x.mass = Q(1) /\ x.restitution = <<3, 10>>
                     /\ x.collision_mask = AllLayers},
            b \in {x \in SecondBodies :
                     /\ ~x.is_static /\ x.collision_layer = 0
                     /\ x.collision_mask = AllLayers}}

InitPhysics ==
    /\ now = StartTime
    /\ weapons = [w \in WeaponTypes |-> NewWeapon(w)]
    /\ current_weapon_type = "pistol"
    /\ card_stacks = [c \in WeaponCards |-> 0]
    /\ card_ops = 0
    /\ switches = 0
    /\ frame = [updated |-> FALSE, shot |-> FALSE]
    /\ op = Call("init", "")
    /\ returned = "None"
    /\ emitted = <<>>
    /\ player = NewPlayer
    /\ cards = <<>>
    /\ player_cards = NoCards
    /\ before = [player |-> NewPlayer, weapons |-> weapons]
    /\ calls = <<>>
    /\ NoEvents
    /\ NoGame
    /\ bodies \in StartBodies
    /\ spatial_hash = <<>>
    /\ collision_pairs = {}
    /\ current_collisions = <<>>
    /\ observed = NothingObserved

\* PhysicsSystem.update(dt): the integration loop, the broad phase, the
\* narrow phase over the pairs in the order the set yields them, and the
\* resolution of the collisions found
PhysicsUpdate ==
    /\ observed.updates < MaxUpdates
    /\ returned = "None"
    /\ \E dt \in Dts :
         \E moved \in {[i \in 1..Len(bodies) |-> integrate(bodies[i], dt)]} :
         \E broad \in {_broad_phase_collision_detection(moved)} :
         \E pairs \in Orders(broad.collision_pairs) :
         \E collisions \in {_narrow_phase_collision_detection(moved, pairs)} :
         \E r \in {_resolve_collisions(moved, collisions, 1, <<>>)} :
            /\ bodies' = r.bodies
            /\ spatial_hash' = broad.spatial_hash
            /\ collision_pairs' = broad.collision_pairs
            /\ current_collisions' = collisions
            /\ observed' = [updates |-> observed.updates + 1, start |-> bodies,
                            moved |-> moved, resolved |-> r.log]
            /\ returned' = IF r.raised THEN "ZeroDivisionError" ELSE "None"
    /\ op' = Call("update", "")
    /\ UNCHANGED <<now, weapons, current_weapon_type, card_stacks, card_ops, switches,
                   frame, emitted, cardvars, eventvars, game>>


\* the boxes handed to the narrow phase alone: around (120, 100), 20 or 40
\* wide and high
NarrowBodies ==
    {PhysicsBody(x, y, w, h) :
        x \in {100, 110, 120, 130, 140, 170}, y \in {100, 110, 130, 150},
        w \in {20, 40}, h \in {20, 40}}

InitNarrow ==
    /\ now = StartTime
    /\ weapons = [w \in WeaponTypes |-> NewWeapon(w)]
    /\ current_weapon_type = "pistol"
    /\ card_stacks = [c \in WeaponCards |-> 0]
    /\ card_ops = 0
    /\ switches = 0
    /\ frame = [updated |-> FALSE, shot |-> FALSE]
    /\ op = Call("init", "")
    /\ returned = "None"
    /\ emitted = <<>>
    /\ player = NewPlayer
    /\ cards = <<>>
    /\ player_cards = NoCards
    /\ before = [player |-> NewPlayer, weapons |-> weapons]
    /\ calls = <<>>
    /\ NoEvents
    /\ NoGame
    /\ \E a \in {b \in NarrowBodies : b.position = Vector2(Q(120), Q(100))},
          b \in NarrowBodies : bodies = <<a, b>>
    /\ spatial_hash = <<>>
    /\ collision_pairs = {}
    /\ current_collisions = <<>>
    /\ observed = NothingObserved

\* _check_aabb_collision on the two bodies, in one order and then the other
CheckAabbCollision ==
    /\ op.name = "init"
    /\ calls' = <<[body_a |-> 1, body_b |-> 2,
                   result |-> _check_aabb_collision(bodies[1], bodies[2])],
                  [body_a |-> 2, body_b |-> 1,
                   result |-> _check_aabb_collision(bodies[2], bodies[1])]>>
    /\ op' = Call("_check_aabb_collision", "")
    /\ UNCHANGED <<now, weapons, current_weapon_type, card_stacks, card_ops, switches,
                   frame, returned, emitted, player, cards, player_cards, before,
                   othervars>>


---------------------------------------------------------------------------
(* EventManager.  An Event is [type, id, handled]: id numbers the Event
   objects in creation order.  h = [event_queue, event_count, received] is
   what a dispatch works on. *)

\* emit is called from outside a listener while fewer events were created
MaxEvents == 3

\* the most callbacks subscribed to one type
MaxListeners == 2

EventTypes == {"weapon_switch", "sound_play"}

\* the callbacks subscribed: one that only takes note of the event, one that
\* calls event.mark_handled(), one that raises, and one that emits a queued
\* SOUND_PLAY as Game._handle_weapon_switch does
Callbacks == {"on_event", "on_handled", "on_error", "_handle_weapon_switch"}

\* the subscriptions made: _handle_weapon_switch listens to WEAPON_SWITCH only
Subscriptions ==
    {s \in EventTypes \X Callbacks :
        s[2] = "_handle_weapon_switch" => s[1] = "weapon_switch"}

NewEvent(type, id) == [type |-> type, id |-> id, handled |-> FALSE]

\* the listeners of a type: none when the type was never subscribed
ListenersOf(ls, type) == IF type \in DOMAIN ls THEN ls[type] ELSE <<>>

subscribe_again(ls, type, callback) ==
    [t \in DOMAIN ls \cup {type} |->
        IF t = type THEN Append(ListenersOf(ls, t), callback) ELSE ls[t]]

\* subscribe: the callback is appended unless the type already has it
subscribe(ls, type, callback) ==
    [t \in DOMAIN ls \cup {type} |->
        IF t = type /\ callback \notin Range(ListenersOf(ls, t))
        THEN Append(ListenersOf(ls, t), callback) ELSE ls[t]]

\* unsubscribe: list.remove takes the callback out
unsubscribe(ls, type, callback) ==
    IF type \in DOMAIN ls
    THEN [ls EXCEPT ![type] = SelectSeq(ls[type], LAMBDA c : c # callback)]
    ELSE ls

\* one call listener(event): the call is noted, and the listener does what
\* it does: a queued emit, mark_handled, or nothing that the manager sees
CallListener(h, event, listener) ==
    LET noted == [h EXCEPT !.received =
                     Append(h.received, [listener |-> listener, event |-> event.id,
                                         type |-> event.type])]
    IN IF listener = "_handle_weapon_switch" /\ enabled
       THEN [h |-> [noted EXCEPT
                       !.event_queue = Append(noted.event_queue,
                                              NewEvent("sound_play", noted.event_count + 1)),
                       !.event_count = noted.event_count + 1],
             handled |-> event.handled]
       ELSE [h |-> noted, handled |-> event.handled \/ listener = "on_handled"]

\* _dispatch_event from the k-th listener of the event's type on: the loop
\* ends after a listener that leaves the event handled; a listener that
\* raises is logged and the loop goes on
RECURSIVE _dispatch_event(_, _, _, _)
_dispatch_event(h, ls, event, k) ==
    IF k > Len(ListenersOf(ls, event.type)) THEN h
    ELSE LET r == CallListener(h, event, ListenersOf(ls, event.type)[k])
         IN IF r.handled /\ ListenersOf(ls, event.type)[k] # "on_error"
            THEN r.h
            ELSE _dispatch_event(r.h, ls, [event EXCEPT !.handled = r.handled], k + 1)

\* the loop of process_events over the copied queue
RECURSIVE DispatchAll(_, _, _)
DispatchAll(h, ls, events_to_process) ==
    IF events_to_process = <<>> THEN h
    ELSE DispatchAll(_dispatch_event(h, ls, Head(events_to_process), 1), ls,
                     Tail(events_to_process))

process_events_keeping(h, ls) == DispatchAll(h, ls, h.event_queue)

\* process_events: the queue is copied and cleared, then the copy is dispatched
process_events(h, ls) ==
    DispatchAll([h EXCEPT !.event_queue = <<>>], ls, h.event_queue)


InitEvents ==
    /\ now = StartTime
    /\ weapons = [w \in WeaponTypes |-> NewWeapon(w)]
    /\ current_weapon_type = "pistol"
    /\ card_stacks = [c \in WeaponCards |-> 0]
    /\ card_ops = 0
    /\ switches = 0
    /\ frame = [updated |-> FALSE, shot |-> FALSE]
    /\ op = Call("init", "")
    /\ returned = "None"
    /\ emitted = <<>>
    /\ player = NewPlayer
    /\ cards = <<>>
    /\ player_cards = NoCards
    /\ before = [player |-> NewPlayer, weapons |-> weapons]
    /\ calls = <<>>
    /\ NoPhysics
    /\ NoEvents
    /\ NoGame

\* what no event manager call touches
EventFrame ==
    UNCHANGED <<now, weapons, current_weapon_type, card_stacks, card_ops, switches,
                frame, returned, emitted, player, cards, player_cards, before,
                physvars, enabled, game>>

\* the manager as a dispatch sees it, with no listener called yet
Manager == [event_queue |-> event_queue, event_count |-> event_count, received |-> <<>>]

Subscribe ==
    \E s \in Subscriptions :
        /\ Len(ListenersOf(listeners, s[1])) < MaxListeners
        /\ listeners' = subscribe(listeners, s[1], s[2])
        /\ op' = Call("subscribe", "")
        /\ calls' = <<>>
        /\ received' = <<>>
        /\ UNCHANGED <<event_queue, event_count>>
        /\ EventFrame

Unsubscribe ==
    \E s \in Subscriptions :
        /\ listeners' = unsubscribe(listeners, s[1], s[2])
        /\ op' = Call("unsubscribe", "")
        /\ calls' = <<>>
        /\ received' = <<>>
        /\ UNCHANGED <<event_queue, event_count>>
        /\ EventFrame

\* emit(event_type, immediate=...): dispatched at once, or queued
Emit ==
    \E type \in EventTypes, immediate \in BOOLEAN :
        /\ event_count < MaxEvents
        /\ enabled
        /\ LET event == NewEvent(type, event_count + 1)
               created == [Manager EXCEPT !.event_count = event_count + 1]
               h == IF immediate
                    THEN _dispatch_event(created, listeners, event, 1)
                    ELSE [created EXCEPT !.event_queue = Append(event_queue, event)]
           IN /\ event_queue' = h.event_queue
              /\ event_count' = h.event_count
              /\ received' = h.received
              /\ calls' = <<[immediate |-> immediate, event |-> event.id]>>
        /\ op' = Call("emit", type)
        /\ UNCHANGED listeners
        /\ EventFrame

ProcessEvents ==
    /\ enabled
    /\ LET h == process_events(Manager, listeners)
       IN /\ event_queue' = h.event_queue
          /\ event_count' = h.event_count
          /\ received' = h.received
    /\ op' = Call("process_events", "")
    /\ calls' = <<>>
    /\ UNCHANGED listeners
    /\ EventFrame

\* the entities handed to add_entity, and where the physics_body of each is
Entities == {"player", "dummy"}

body_place(entity) ==
    IF entity = "player" THEN PhysicsBody(120, 100, 40, 40) ELSE PhysicsBody(150, 100, 40, 40)

\* the physics_body of an entity when it is added: the mass and the velocity
\* are what was assigned to it after PhysicsBody(...), a mass of 0 included
EntityBodies(entity) ==
    {[body_place(entity) EXCEPT !.mass = m, !.velocity = v, !.affected_by_gravity = g] :
        m \in {Q(0), Q(1)}, g \in BOOLEAN,
        v \in {VZero, Vector2(Q(100), Q(0)), Vector2(Q(-100), Q(0))}}

\* the body is in self.bodies
Registered(bs, body) == \E i \in 1..Len(bs) : bs[i] = body

\* add_entity: a body that is not in the list is appended and woken
add_entity(bs, body) ==
    IF Registered(bs, body) THEN bs ELSE Append(bs, wake_up(body))

\* a new PhysicsSystem, with no body
InitRegister ==
    /\ now = StartTime
    /\ weapons = [w \in WeaponTypes |-> NewWeapon(w)]
    /\ current_weapon_type = "pistol"
    /\ card_stacks = [c \in WeaponCards |-> 0]
    /\ card_ops = 0
    /\ switches = 0
    /\ frame = [updated |-> FALSE, shot |-> FALSE]
    /\ op = Call("init", "")
    /\ returned = "None"
    /\ emitted = <<>>
    /\ player = NewPlayer
    /\ cards = <<>>
    /\ player_cards = NoCards
    /\ before = [player |-> NewPlayer, weapons |-> weapons]
    /\ calls = <<>>
    /\ NoEvents
    /\ NoGame
    /\ NoPhysics
    /\ observed = NothingObserved

\* add_entity(entity) before the first update; the entity is added once or
\* again with the body it has
AddEntity ==
    \E entity \in Entities :
        /\ observed.updates = 0
        /\ \E body \in IF \E i \in 1..Len(bodies) : bodies[i].position = body_place(entity).position
                       THEN {b \in EntityBodies(entity) : Registered(bodies, b)}
                       ELSE EntityBodies(entity) :
              bodies' = add_entity(bodies, body)
        /\ op' = Call("add_entity", entity)
        /\ returned' = "None"
        /\ UNCHANGED <<now, weapons, current_weapon_type, card_stacks, card_ops, switches,
                       frame, emitted, cardvars, eventvars, game, spatial_hash, collision_pairs,
                       current_collisions, observed>>


---------------------------------------------------------------------------
(* Game: bullets, test dummies and the frame.  Lengths are pixels along the
   horizontal line of fire, on which every dummy of the model stands; times
   are milliseconds, as clock.tick returns them.  No platform and no player
   is on the line, the weapons are not reloading and no body is registered
   with the physics system, so those steps of a frame change nothing. *)

\* _update runs while fewer frames were played
MaxTicks == 4

\* bullets are shot while fewer were shot
MaxBullets == 2

\* clock.tick(target_fps): the milliseconds a frame took
FrameTimes == {20, 40}

\* what _handle_mouse_click finds in get_weapon_info: neither a damage, nor a
\* bullet_speed, nor a bullet_size, so the defaults of the .get calls
bullet_defaults == [bullet_speed |-> 500, damage |-> 25, bullet_size |-> 3]

\* where a bullet is spawned on the line, left of the dummies
SpawnPlaces == {240, 260}

\* Bullet(x, y, angle, speed, damage, size) flying to the right; id numbers
\* the bullets in creation order, hits counts the times its damage was dealt
Bullet(id, x) ==
    [id |-> id, x |-> x, speed |-> bullet_defaults.bullet_speed,
     damage |-> bullet_defaults.damage, size |-> bullet_defaults.bullet_size,
     distance_traveled |-> 0, max_distance |-> 800, active |-> TRUE, hits |-> 0]

\* TestDummy(x, y): the fields its update and take_damage work on
TestDummy(x) ==
    [x |-> x, width |-> 40, health |-> 100, max_health |-> 100, alive |-> TRUE,
     should_respawn |-> TRUE, respawn_timer |-> 0, respawn_delay |-> 3000]

\* the dummies a frame can find: new, damaged by earlier bullets, or killed
\* and about to respawn
DummyStates(x) ==
    {TestDummy(x), [TestDummy(x) EXCEPT !.health = 50], [TestDummy(x) EXCEPT !.health = 25],
     [TestDummy(x) EXCEPT !.health = 0, !.alive = FALSE, !.respawn_timer = 2960]}

\* the dummies of a game: one on the line, or two behind each other
StartDummies ==
    {<<d>> : d \in DummyStates(300)}
      \cup {<<d, e>> : d \in DummyStates(300), e \in {TestDummy(340)}}

\* Bullet.update
bullet_update(b, dt) ==
    IF ~b.active THEN b
    ELSE [b EXCEPT !.x = @ + (b.speed * dt) \div 1000,
                   !.distance_traveled = @ + (b.speed * dt) \div 1000,
                   !.active = b.distance_traveled + (b.speed * dt) \div 1000
                                < b.max_distance]

\* BulletManager.update: inactive bullets are removed, the others move
bullet_manager_update(bullets, dt) ==
    LET kept == SelectSeq(bullets, LAMBDA b : b.active)
    IN [i \in 1..Len(kept) |-> bullet_update(kept[i], dt)]

\* TestDummy.respawn
respawn(d) == [d EXCEPT !.health = d.max_health, !.alive = TRUE, !.respawn_timer = 0]

\* TestDummy.update: a dead dummy waits for its respawn
dummy_update(d, dt) ==
    IF ~d.alive /\ d.should_respawn
    THEN IF d.respawn_timer + dt >= d.respawn_delay THEN respawn(d)
         ELSE [d EXCEPT !.respawn_timer = @ + dt]
    ELSE d

\* DummyManager.update
dummy_manager_update(dummies, dt) ==
    [i \in 1..Len(dummies) |-> dummy_update(dummies[i], dt)]

\* TestDummy.take_damage: the dummy after it, and whether it was killed
take_damage(d, damage) ==
    IF ~d.alive THEN [dummy |-> d, killed |-> FALSE]
    ELSE IF d.health - damage <= 0
    THEN [dummy |-> [d EXCEPT !.health = 0, !.alive = FALSE, !.respawn_timer = 0],
          killed |-> TRUE]
    ELSE [dummy |-> [d EXCEPT !.health = @ - damage], killed |-> FALSE]

\* TestDummy.get_rect and the bullet_rect of _check_bullet_dummy_collisions,
\* as the horizontal extent of the pygame.Rect
get_rect(d) == [left |-> d.x - d.width \div 2, width |-> d.width]

bullet_rect(b) == [left |-> b.x - b.size \div 2, width |-> b.size]

\* pygame.Rect.colliderect: the extents overlap, touching edges do not
colliderect(r, q) == r.left < q.left + q.width /\ q.left < r.left + r.width

\* DummyManager.handle_bullet_collision from the k-th dummy on: the first
\* living dummy the rectangle meets takes the damage; hit is its index (0:
\* none), killed tells whether the call returns it
RECURSIVE handle_bullet_collision(_, _, _, _)
handle_bullet_collision(dummies, rect, damage, k) ==
    IF k > Len(dummies) THEN [dummies |-> dummies, hit |-> 0, killed |-> FALSE]
    ELSE IF dummies[k].alive /\ colliderect(get_rect(dummies[k]), rect)
    THEN [dummies |-> [dummies EXCEPT ![k] = take_damage(dummies[k], damage).dummy],
          hit |-> k, killed |-> take_damage(dummies[k], damage).killed]
    ELSE handle_bullet_collision(dummies, rect, damage, k + 1)

\* one entry of the record of a frame: the step made, and the event and the
\* bullet it is about (0: none); hits is what the bullet has dealt so far
Step(name, event, bullet, hits) ==
    [step |-> name, event |-> event, bullet |-> bullet, hits |-> hits]

\* the body of the loop of _check_bullet_dummy_collisions for the i-th
\* bullet, given what handle_bullet_collision returned: a kill marks the
\* bullet for removal and emits a queued DUMMY_DEATH
bullet_checked(s, i, r) ==
    [dummies |-> r.dummies,
     bullets |-> [s.bullets EXCEPT ![i].hits = IF r.hit > 0 THEN @ + 1 ELSE @],
     bullets_to_remove |-> IF r.killed THEN s.bullets_to_remove \cup {s.bullets[i].id}
                           ELSE s.bullets_to_remove,
     h |-> IF r.killed /\ enabled
           THEN [s.h EXCEPT !.event_queue =
                               Append(@, NewEvent("dummy_death", s.h.event_count + 1)),
                            !.event_count = @ + 1]
           ELSE s.h,
     steps |-> IF r.killed
               THEN Append(s.steps, Step("kill", IF enabled THEN s.h.event_count + 1 ELSE 0,
                                         s.bullets[i].id, s.bullets[i].hits + 1))
               ELSE IF r.hit > 0
               THEN Append(s.steps, Step("hit", 0, s.bullets[i].id, s.bullets[i].hits + 1))
               ELSE s.steps]

\* _check_bullet_dummy_collisions from the i-th bullet on, then the removal
\* of the bullets marked
RECURSIVE _check_bullet_dummy_collisions(_, _)
_check_bullet_dummy_collisions(s, i) ==
    IF i > Len(s.bullets)
    THEN [s EXCEPT !.bullets = SelectSeq(@, LAMBDA b : b.id \notin s.bullets_to_remove)]
    ELSE _check_bullet_dummy_collisions(
             bullet_checked(s, i,
                 handle_bullet_collision(s.dummies, bullet_rect(s.bullets[i]),
                                         s.bullets[i].damage, 1)),
             i + 1)

\* the listener calls of a drain that are Game._handle_dummy_death
DeathsHandled(rcv) == SelectSeq(rcv, LAMBDA c : c.listener = "_handle_dummy_death")

\* Game._handle_dummy_death, called for every entry of rcv: the killer is
\* player 1, whom self.players holds, so the first call made while the game
\* is playing opens the card selection
_handle_dummy_death(game_state, rcv) ==
    IF DeathsHandled(rcv) # <<>> /\ game_state = "playing" THEN "card_selection"
    ELSE game_state

\* the record of the first step of a frame: the drain, and the handler calls
\* it made
DrainSteps(rcv) ==
    <<Step("process_events", 0, 0, 0)>>
      \o [i \in 1..Len(DeathsHandled(rcv)) |->
            Step("_handle_dummy_death", DeathsHandled(rcv)[i].event, 0, 0)]

\* Game._update after the drain h of the event queue: weapons, players,
\* bullets, dummies, the bullet-dummy collisions, physics, then the UI
frame_after_drain(g, h, dt) ==
    LET c == _check_bullet_dummy_collisions(
                 [dummies |-> dummy_manager_update(g.dummies, dt),
                  bullets |-> bullet_manager_update(g.bullets, dt),
                  bullets_to_remove |-> {},
                  h |-> h,
                  steps |-> DrainSteps(h.received)
                              \o <<Step("weapon_manager.update", 0, 0, 0),
                                   Step("player.update", 0, 0, 0),
                                   Step("bullet_manager.update", 0, 0, 0),
                                   Step("dummy_manager.update", 0, 0, 0),
                                   Step("_check_bullet_dummy_collisions", 0, 0, 0)>>],
                 1)
    IN [game |-> [game_state |-> _handle_dummy_death(g.game_state, h.received),
                  bullets |-> c.bullets, dummies |-> c.dummies, shots |-> g.shots,
                  ticks |-> g.ticks + 1,
                  steps |-> c.steps \o <<Step("physics_system.update", 0, 0, 0),
                                         Step("game_ui.update", 0, 0, 0),
                                         Step("_update_ui", 0, 0, 0)>>],
        h |-> c.h]

\* Game._update(dt)
_update(g, h, ls, dt) == frame_after_drain(g, process_events(h, ls), dt)

\* the subscriptions of Game._register_event_handlers the frames of the
\* model can reach
GameListeners == [dummy_death |-> <<"_handle_dummy_death">>]

InitGame ==
    /\ now = StartTime
    /\ weapons = [w \in WeaponTypes |-> NewWeapon(w)]
    /\ current_weapon_type = "pistol"
    /\ card_stacks = [c \in WeaponCards |-> 0]
    /\ card_ops = 0
    /\ switches = 0
    /\ frame = [updated |-> FALSE, shot |-> FALSE]
    /\ op = Call("init", "")
    /\ returned = "None"
    /\ emitted = <<>>
    /\ player = NewPlayer
    /\ cards = <<>>
    /\ player_cards = NoCards
    /\ before = [player |-> NewPlayer, weapons |-> weapons]
    /\ calls = <<>>
    /\ NoPhysics
    /\ listeners = GameListeners
    /\ event_queue = <<>>
    /\ enabled = TRUE
    /\ event_count = 0
    /\ received = <<>>
    /\ \E ds \in StartDummies :
          game = [game_state |-> "playing", bullets |-> <<>>, dummies |-> ds,
                  shots |-> 0, ticks |-> 0, steps |-> <<>>]

\* what no step of the game touches
GameFrame ==
    UNCHANGED <<now, weapons, current_weapon_type, card_stacks, card_ops, switches,
                frame, returned, emitted, player, cards, player_cards, before, calls,
                physvars, listeners, enabled>>

\* the run loop while the game is playing: one frame of _update
GameUpdate ==
    \E dt \in FrameTimes :
        /\ game.game_state = "playing"
        /\ game.ticks < MaxTicks
        /\ \E u \in {_update(game, Manager, listeners, dt)} :
              /\ game' = u.game
              /\ event_queue' = u.h.event_queue
              /\ event_count' = u.h.event_count
              /\ received' = u.h.received
        /\ op' = Call("_update", "")
        /\ GameFrame

\* _handle_mouse_click while the game is playing, with a weapon that fired:
\* the bullet is built and handed to bullet_manager.add_bullet
AddBullet ==
    \E x \in SpawnPlaces :
        /\ game.game_state = "playing"
        /\ game.shots < MaxBullets
        /\ game' = [game EXCEPT !.bullets = Append(@, Bullet(game.shots + 1, x)),
                                !.shots = @ + 1]
        /\ op' = Call("add_bullet", "")
        /\ UNCHANGED <<event_queue, event_count, received>>
        /\ GameFrame

\* the card selection ends: _on_card_selected sets the game playing again
\* (what it does with the card is OnCardSelected)
ResumeGame ==
    /\ game.game_state = "card_selection"
    /\ game' = [game EXCEPT !.game_state = "playing"]
    /\ op' = Call("_on_card_selected", "")
    /\ UNCHANGED <<event_queue, event_count, received>>
    /\ GameFrame

---------------------------------------------------------------------------
(* Specifications *)

\* the weapon manager: every weapon, switching at any time
Next ==
    \/ Tick
    \/ Shoot
    \/ Reload
    \/ Update
    \/ SwitchWeapon
    \/ NextWeapon
    \/ PreviousWeapon

Spec == Init /\ [][Next]_vars

\* one selected weapon under direct apply_card_effect calls
NextEffects ==
    \/ SelectWeapon
    \/ Tick
    \/ Shoot
    \/ Reload
    \/ Update
    \/ ApplyCardEffect

SpecEffects == Init /\ [][NextEffects]_vars

\* one selected weapon under the weapon cards of the catalog
NextCards ==
    \/ SelectWeapon
    \/ Tick
    \/ Shoot
    \/ Reload
    \/ Update
    \/ CardApplyEffect
    \/ CardRemoveEffect

SpecCards == Init /\ [][NextCards]_vars


\* modifier changes of every kind, with the selection changing in between
NextModifiers ==
    \/ SwitchWeapon
    \/ ApplyCardEffect
    \/ CardApplyEffect
    \/ CardRemoveEffect

SpecModifiers == Init /\ [][NextModifiers]_vars

\* one card applied N times and removed once, from any starting target
NextRoundTrip ==
    \/ RoundTripApply
    \/ RoundTripRemove

SpecRoundTrip == InitRoundTrip /\ [][NextRoundTrip]_vars

\* the game's card flow: cards picked one after another, all removed at times
NextAcquire ==
    \/ OnCardSelected
    \/ RemoveAllCards

SpecAcquire == InitAcquire /\ [][NextAcquire]_vars

\* the card manager and the card instances under any sequence of calls
NextManager ==
    \/ AddCardToPlayer
    \/ AddStack
    \/ ApplyEffect
    \/ ApplyCardToPlayer
    \/ RemoveEffect
    \/ RemoveAllCall

SpecManager == InitManager /\ [][NextManager]_vars

\* one call of get_random_cards for every count, exclude list and sample
NextRandom == GetRandomCards

SpecRandom == InitRandom /\ [][NextRandom]_vars

\* update calls on two or three bodies
NextPhysics == PhysicsUpdate

SpecPhysics == InitPhysics /\ [][NextPhysics]_vars

\* the narrow-phase check of two boxes in both orders
NextNarrow == CheckAabbCollision

SpecNarrow == InitNarrow /\ [][NextNarrow]_vars

\* the event manager under subscribe, unsubscribe, emit and process_events
NextEvents ==
    \/ Subscribe
    \/ Unsubscribe
    \/ Emit
    \/ ProcessEvents

SpecEvents == InitEvents /\ [][NextEvents]_vars

\* a physics system filled by add_entity and then updated
NextRegister ==
    \/ AddEntity
    \/ PhysicsUpdate

SpecRegister == InitRegister /\ [][NextRegister]_vars

\* one weighted selection of cards
NextWeighted == GetWeightedRandomCards

SpecWeighted == InitWeighted /\ [][NextWeighted]_vars

\* the game under frames, shots and card selections
NextGame ==
    \/ GameUpdate
    \/ AddBullet
    \/ ResumeGame

SpecGame == InitGame /\ [][NextGame]_vars


\* a weapon played while magazine cards are acquired and all cards removed
NextCycle ==
    \/ SelectWeapon
    \/ Tick
    \/ Shoot
    \/ Reload
    \/ Update
    \/ OnMagazineCardSelected
    \/ RemoveAllCards

SpecCycle == InitAcquire /\ [][NextCycle]_vars

\* the frames keep coming: update is called, time advances, the shot is retried
SpecCycleFair ==
    SpecCycle /\ WF_vars(Update) /\ WF_vars(Tick) /\ WF_vars(Shoot)

\* the pistol's firing run
NextRun ==
    \/ FrameUpdate
    \/ FrameShoot
    \/ FrameTick

SpecRun == Init /\ [][NextRun]_vars

---------------------------------------------------------------------------
(* Properties *)

\* the selected weapon
cur == weapons[current_weapon_type]

\* how many events of one type about one weapon a call emitted
Emitted(type, w) ==
    Cardinality({i \in 1..Len(emitted') : emitted'[i] = Event(type, w)})

\* C1: every weapon always has 0 <= current_ammo <= magazine_size +
\* magazine_size_bonus, whatever shoot, reload, update and card calls were made.
C1_AmmoWithinMagazine ==
    \A w \in WeaponTypes :
        /\ 0 <= weapons[w].current_ammo
        /\ weapons[w].current_ammo
              <= weapon_configs[w].magazine_size + weapons[w].magazine_size_bonus

\* C2: on a weapon that is not reloading and has ammo, a shoot() made less than
\* 1/(fire_rate * fire_rate_multiplier) after the last shot returns False and
\* changes and emits nothing; one made at least that long after it returns True,
\* takes exactly one round and stamps last_shot_time.  The interval exists
\* where fire_rate * fire_rate_multiplier is not 0.
C2_FireRateGate ==
    [][ LET w    == current_weapon_type
            rate == weapon_configs[w].fire_rate * cur.fire_rate_multiplier
            gap  == now - cur.last_shot_time
            \* gap/8 s < 1 / (rate/8 per s)
            tooEarly == rate > 0 /\ gap * rate < Units.second * Units.second
        IN  (op'.name = "shoot" /\ ~cur.is_reloading /\ cur.current_ammo > 0 /\ rate # 0)
            => IF tooEarly
               THEN /\ returned' = "False"
                    /\ weapons' = weapons
                    /\ emitted' = <<>>
               ELSE /\ returned' = "True"
                    /\ weapons'[w].current_ammo = cur.current_ammo - 1
                    /\ weapons'[w].last_shot_time = now
                    /\ Emitted("weapon_fire", w) = 1
      ]_vars

\* C2 witness: the gate has just refused a shot of a ready, loaded weapon whose
\* fire rate a card has raised.
C2_Witness ==
    /\ op.name = "shoot"
    /\ returned = "False"
    /\ ~cur.is_reloading
    /\ cur.current_ammo > 0
    /\ cur.last_shot_time > 0
    /\ cur.last_shot_time < now
    /\ cur.fire_rate_multiplier > Units.mult

\* C3: a successful shoot() that takes current_ammo from 1 to 0 leaves the
\* weapon reloading, with one reload-start notification emitted.
C3_LastRoundStartsReload ==
    [][ LET w == current_weapon_type
        IN  (op'.name = "shoot" /\ returned' = "True" /\ cur.current_ammo = 1)
            => /\ weapons'[w].current_ammo = 0
               /\ weapons'[w].is_reloading
               /\ Emitted("weapon_reload_start", w) = 1
      ]_vars

\* C4: shoot() with current_ammo = 0 on a weapon that is not reloading returns
\* False, fires nothing, keeps current_ammo and last_shot_time and starts the
\* reload; shoot() refused because the weapon is reloading, or is inside the
\* fire interval with ammo left, returns False and changes and emits nothing.
C4_RefusedShot ==
    [][ LET w    == current_weapon_type
            rate == weapon_configs[w].fire_rate * cur.fire_rate_multiplier
            gap  == now - cur.last_shot_time
        IN  /\ (op'.name = "shoot" /\ cur.current_ammo = 0 /\ ~cur.is_reloading)
               => /\ returned' = "False"
                  /\ Emitted("weapon_fire", w) = 0
                  /\ weapons'[w].current_ammo = cur.current_ammo
                  /\ weapons'[w].last_shot_time = cur.last_shot_time
                  /\ weapons'[w].is_reloading
            /\ (/\ op'.name = "shoot"
                /\ \/ cur.is_reloading
                   \/ /\ cur.current_ammo > 0
                      /\ rate > 0
                      /\ gap * rate < Units.second * Units.second)
               => /\ returned' = "False"
                  /\ weapons' = weapons
                  /\ emitted' = <<>>
      ]_vars

\* C5: reload() returns True, sets is_reloading, stamps reload_start_time and
\* emits reload-start exactly when the weapon is not reloading and current_ammo
\* is below magazine_size + magazine_size_bonus; in every other state, one with
\* current_ammo above that maximum included, it returns False and changes and
\* emits nothing.
C5_ReloadGuard ==
    [][ LET w == current_weapon_type
        IN  op'.name = "reload"
            => IF /\ ~cur.is_reloading
                  /\ cur.current_ammo
                       < weapon_configs[w].magazine_size + cur.magazine_size_bonus
               THEN /\ returned' = "True"
                    /\ weapons'[w].is_reloading
                    /\ weapons'[w].reload_start_time = now
                    /\ Emitted("weapon_reload_start", w) = 1
               ELSE /\ returned' = "False"
                    /\ weapons' = weapons
                    /\ emitted' = <<>>
      ]_vars

\* C6: update() leaves a reloading weapon alone while now - reload_start_time
\* is below reload_time * reload_time_multiplier; at or past it, update() clears
\* is_reloading, fills current_ammo to magazine_size + magazine_size_bonus and
\* emits exactly one reload-complete; a weapon that is not reloading (any later
\* update) is left alone and gets no reload-complete.
C6_UpdateCompletesReload ==
    [][ op'.name = "update"
        => \A w \in WeaponTypes :
              LET s    == weapons[w]
                  due  == (now - s.reload_start_time) * s.reload_time_multiplier[2]
                             >= weapon_configs[w].reload_time * s.reload_time_multiplier[1]
              IN  IF s.is_reloading /\ due
                  THEN /\ ~weapons'[w].is_reloading
                       /\ weapons'[w].current_ammo
                            = weapon_configs[w].magazine_size + s.magazine_size_bonus
                       /\ Emitted("weapon_reload_complete", w) = 1
                  ELSE /\ weapons'[w] = s
                       /\ Emitted("weapon_reload_complete", w) = 0
      ]_vars

\* C6 witness: an update() has just completed the reload of a weapon whose
\* magazine a card has enlarged.
C6_Witness ==
    /\ op.name = "update"
    /\ emitted = <<Event("weapon_reload_complete", current_weapon_type)>>
    /\ ~cur.is_reloading
    /\ cur.magazine_size_bonus > 0
    /\ cur.current_ammo
         = weapon_configs[current_weapon_type].magazine_size + cur.magazine_size_bonus

\* the calls that a reload must survive
NonUpdateCalls == {"shoot", "reload", "switch_weapon", "next_weapon", "previous_weapon"}

\* C7: no shoot(), reload(), switch_weapon(), next_weapon() or previous_weapon()
\* call changes is_reloading, current_ammo or reload_start_time of a weapon
\* that is reloading.
C7_ReloadNotAborted ==
    [][ op'.name \in NonUpdateCalls
        => \A w \in WeaponTypes :
              weapons[w].is_reloading
              => /\ weapons'[w].is_reloading
                 /\ weapons'[w].current_ammo = weapons[w].current_ammo
                 /\ weapons'[w].reload_start_time = weapons[w].reload_start_time
      ]_vars

\* C7 witness: reload() has just been called, later than the reload began, on
\* the selected weapon while it is reloading.
C7_Witness ==
    /\ op = Call("reload", current_weapon_type)
    /\ returned = "False"
    /\ cur.is_reloading
    /\ cur.reload_start_time < now

\* C9: update() completes the reload of every weapon whose reload time has
\* elapsed, selected or not: afterwards it is ready with a full magazine.
C9_UpdateAdvancesEveryWeapon ==
    [][ op'.name = "update"
        => \A w \in WeaponTypes :
              (/\ weapons[w].is_reloading
               /\ now - weapons[w].reload_start_time >= weapon_configs[w].reload_time)
              => /\ ~weapons'[w].is_reloading
                 /\ weapons'[w].current_ammo = weapon_configs[w].magazine_size
                 /\ Event("weapon_reload_complete", w)
                       \in {emitted'[i] : i \in 1..Len(emitted')}
      ]_vars

\* C9 witness: update() has just completed the reload of a weapon that is not
\* the selected one.
C9_Witness ==
    /\ op.name = "update"
    /\ \E w \in WeaponTypes \ {current_weapon_type} :
          /\ emitted = <<Event("weapon_reload_complete", w)>>
          /\ ~weapons[w].is_reloading
          /\ weapons[w].reload_start_time > 0

\* C10: switch_weapon(type) returns True, selects type and emits exactly one
\* weapon-switch exactly when type is a known weapon other than the selected
\* one; otherwise it returns False, keeps the selection and emits nothing.
\* Either way no weapon's fields change.
C10_SwitchWeapon ==
    [][ op'.name = "switch_weapon"
        => /\ weapons' = weapons
           /\ IF op'.arg \in WeaponTypes /\ op'.arg # current_weapon_type
              THEN /\ returned' = "True"
                   /\ current_weapon_type' = op'.arg
                   /\ emitted' = <<Event("weapon_switch", op'.arg)>>
              ELSE /\ returned' = "False"
                   /\ current_weapon_type' = current_weapon_type
                   /\ emitted' = <<>>
      ]_vars

\* C10 witness: a switch has just succeeded away from a weapon that is
\* reloading.
C10_Witness ==
    /\ op.name = "switch_weapon"
    /\ returned = "True"
    /\ current_weapon_type = op.arg
    /\ \E w \in WeaponTypes \ {current_weapon_type} : weapons[w].is_reloading

\* the pistol of the firing run and the time since the run began
pistol == weapons["pistol"]
elapsed == now - StartTime

\* C8: a fresh pistol fired at t = 0, 0.5, ..., 3.5 s with update() every
\* frame and no reload() call: every shot succeeds and takes one round, the
\* pistol is reloading from the 8th shot on, and after the update at
\* t = 5.0 s it is ready with 8 rounds.
C8_PistolRun ==
    /\ op.name = "shoot" => returned = "True"
    /\ (frame.shot /\ ShotDue)
          => pistol.current_ammo
                = weapon_configs["pistol"].magazine_size - (elapsed \div HalfSecond + 1)
    /\ (frame.shot /\ elapsed = 7 * HalfSecond)
          => /\ pistol.is_reloading
             /\ pistol.current_ammo = 0
    /\ (elapsed > 7 * HalfSecond /\ elapsed < 5 * Units.second)
          => pistol.is_reloading
    /\ (frame.updated /\ elapsed >= 5 * Units.second)
          => /\ ~pistol.is_reloading
             /\ pistol.current_ammo = 8

\* C8 witness: the update at t = 5.0 s has run, the pistol is ready with 8
\* rounds and its last shot was the one at t = 3.5 s.
C8_Witness ==
    /\ elapsed = 5 * Units.second
    /\ frame.updated
    /\ op.name = "update"
    /\ emitted = <<Event("weapon_reload_complete", "pistol")>>
    /\ pistol.current_ammo = 8
    /\ ~pistol.is_reloading
    /\ pistol.last_shot_time = StartTime + 7 * HalfSecond

\* the kind and value of the last apply_card_effect call
lastEffect == calls'[1]

\* C11: apply_card_effect(kind, value) changes on every weapon exactly the
\* modifier its kind names (damage, fire rate and bullet size add value, the
\* reload multiplier is multiplied by 1 - value, the magazine bonus adds
\* int(value)); every other field of every weapon and the selection stay as
\* they were; an unknown kind changes nothing.
C11_ApplyCardEffectFrame ==
    [][ op'.name = "apply_card_effect"
        => /\ current_weapon_type' = current_weapon_type
           /\ \A w \in WeaponTypes :
                LET s == weapons[w]
                    t == weapons'[w]
                    k == lastEffect.effect_type
                    v == lastEffect.value
                IN  /\ t.current_ammo = s.current_ammo
                    /\ t.is_reloading = s.is_reloading
                    /\ t.reload_start_time = s.reload_start_time
                    /\ t.last_shot_time = s.last_shot_time
                    /\ t.damage_multiplier
                          = s.damage_multiplier + (IF k = "damage_boost" THEN v ELSE 0)
                    /\ t.fire_rate_multiplier
                          = s.fire_rate_multiplier + (IF k = "fire_rate_boost" THEN v ELSE 0)
                    /\ t.bullet_size_multiplier
                          = s.bullet_size_multiplier
                               + (IF k = "bullet_size_boost" THEN v ELSE 0)
                    /\ t.magazine_size_bonus
                          = s.magazine_size_bonus
                               + (IF k = "magazine_size_boost" THEN IntOfQuarters(v) ELSE 0)
                    \* t = s * (1 - v), both as fractions
                    /\ IF k = "reload_speed_boost"
                       THEN t.reload_time_multiplier[1] * s.reload_time_multiplier[2]
                               * Units.mult
                            = s.reload_time_multiplier[1] * (Units.mult - v)
                               * t.reload_time_multiplier[2]
                       ELSE t.reload_time_multiplier = s.reload_time_multiplier
      ]_vars

\* C11 witness: a magazine_size_boost of 0.5, which int() truncates to 0, has
\* just been applied to weapons that a shot and a reload have put in different
\* states.
C11_Witness ==
    /\ op = Call("apply_card_effect", "magazine_size_boost")
    /\ calls[1].value = Units.mult \div 2
    /\ cur.is_reloading
    /\ \A w \in WeaponTypes : weapons[w].magazine_size_bonus = 0

\* C12: all four weapons always hold the same damage, fire-rate, reload-time
\* and bullet-size multipliers, whatever apply_card_effect and card
\* apply_effect / remove_effect calls were made and whichever weapon is
\* selected.
C12_ModifiersUniform ==
    \A w1, w2 \in WeaponTypes :
        /\ weapons[w1].damage_multiplier = weapons[w2].damage_multiplier
        /\ weapons[w1].fire_rate_multiplier = weapons[w2].fire_rate_multiplier
        /\ weapons[w1].reload_time_multiplier = weapons[w2].reload_time_multiplier
        /\ weapons[w1].bullet_size_multiplier = weapons[w2].bullet_size_multiplier

\* C12 witness: with a weapon other than the pistol selected, a card has just
\* been removed and the reload-time and damage multipliers are both away from
\* 1.0.
C12_Witness ==
    /\ op.name = "remove_effect"
    /\ current_weapon_type # "pistol"
    /\ cur.reload_time_multiplier # <<1, 1>>
    /\ cur.damage_multiplier # Units.mult

\* the modifiers of one weapon that cards change
Modifiers(s) ==
    <<s.damage_multiplier, s.fire_rate_multiplier, s.reload_time_multiplier,
      s.magazine_size_bonus, s.bullet_size_multiplier>>

\* the fields of the player that cards change
PlayerFields(p) ==
    <<p.damage_reduction, p.healing_rate, p.max_health, p.health,
      p.speed_multiplier, p.jump_force_multiplier, p.max_jumps>>

\* C13: after apply_effect N times (1 <= N <= max_stacks) and one
\* remove_effect, every field the card may change, on the player and on the
\* weapons, has the value it had before the first apply, and current_stacks
\* is 0.
C13_RoundTrip ==
    op.name = "remove_effect"
    => /\ PlayerFields(player) = PlayerFields(before.player)
       /\ \A w \in WeaponTypes : Modifiers(weapons[w]) = Modifiers(before.weapons[w])
       /\ cards[1].current_stacks = 0

\* C14: whatever cards were acquired through the selection callback,
\* remove_all_cards_from_player puts every player field and every weapon
\* modifier back to its value before the first acquisition.
C14_RemoveAllInverts ==
    op.name = "remove_all_cards_from_player"
    => /\ PlayerFields(player) = PlayerFields(before.player)
       /\ \A w \in WeaponTypes : Modifiers(weapons[w]) = Modifiers(before.weapons[w])

\* C15: on a target that holds the weapons, the reload_speed card's
\* apply_effect multiplies every weapon's reload_time_multiplier by 1 - 0.5,
\* its remove_effect divides it by 1 - 0.5, and after the apply and the remove
\* every weapon's reload_time_multiplier is what it was before the apply.
C15_ReloadSpeedRoundTrip ==
    [][ (cards[1].card_id = "reload_speed" /\ "weapon_manager" \in player.attrs)
        => \A w \in WeaponTypes :
              LET s == weapons[w].reload_time_multiplier
                  t == weapons'[w].reload_time_multiplier
                  b == before.weapons[w].reload_time_multiplier
                  k == Units.mult - card_value.reload_speed
              IN  /\ op'.name = "apply_effect"
                        => t[1] * s[2] * Units.mult = s[1] * k * t[2]
                  /\ op'.name = "remove_effect"
                        => /\ t[1] * s[2] * k = s[1] * Units.mult * t[2]
                           /\ t[1] * b[2] = b[1] * t[2]
      ]_vars

\* C15 witness: the reload_speed card has been applied to and removed from
\* weapons whose reload_time_multiplier was 0.5 before, and is 0.5 again.
C15_Witness ==
    /\ op = Call("remove_effect", "reload_speed")
    /\ "weapon_manager" \in player.attrs
    /\ \A w \in WeaponTypes :
          /\ before.weapons[w].reload_time_multiplier = <<1, 2>>
          /\ weapons[w].reload_time_multiplier = <<1, 2>>

\* C16: every card instance always has 0 <= current_stacks <= max_stacks,
\* whatever add_card_to_player, add_stack, apply_effect, apply_card_to_player
\* and remove_effect calls were made.
C16_StacksWithinMax ==
    \A i \in 1..Len(cards) :
        /\ 0 <= cards[i].current_stacks
        /\ cards[i].current_stacks <= card_class[cards[i].card_id].max_stacks

\* the card_ids of the instances the player owns, in acquisition order
OwnedIds == [k \in 1..Len(player_cards.list) |-> cards[player_cards.list[k]].card_id]

\* the owned instance with the card_id of the card just passed, before the call
OwnedBefore == find_player_card(Heap, cards'[calls'[1].card].card_id)

\* C17: the player's collection never holds two instances with the same
\* card_id; add_card_to_player with a card_id the player already owns appends
\* nothing, keeps the order, and when the owned instance can stack raises its
\* current_stacks by exactly 1.
C17_OneInstancePerId ==
    [][ /\ \A k, m \in 1..Len(OwnedIds)' : OwnedIds'[k] = OwnedIds'[m] => k = m
        /\ (op'.name = "add_card_to_player" /\ OwnedBefore # 0)
              => /\ player_cards'.list = player_cards.list
                 /\ can_stack(cards[OwnedBefore])
                       => cards'[OwnedBefore].current_stacks
                             = cards[OwnedBefore].current_stacks + 1
        /\ (op'.name = "add_card_to_player" /\ OwnedBefore = 0)
              => player_cards'.list = Append(player_cards.list, calls'[1].card)
      ]_vars

\* C17 witness: with two different cards owned, a second instance of the
\* first one has just been added: the collection still has two entries and the
\* owned instance has two stacks.
C17_Witness ==
    /\ op.name = "add_card_to_player"
    /\ Len(player_cards.list) = 2
    /\ calls[1].card = 3
    /\ cards[3].card_id = cards[player_cards.list[1]].card_id
    /\ cards[3].current_stacks = 0
    /\ cards[player_cards.list[1]].current_stacks = 2

\* the instance passed to the last add_card_to_player, as it was before the
\* call (a card created for the call has no stacks yet)
PassedBefore ==
    IF calls'[1].card <= Len(cards) THEN cards[calls'[1].card]
    ELSE NewCard(cards'[calls'[1].card].card_id)

\* C18: add_card_to_player returns False exactly when the player owns an
\* instance of that card_id that cannot stack (not stackable, or its stacks
\* have reached max_stacks), and then the collection, the owned instance and
\* the passed instance are unchanged; a first acquisition appends the passed
\* instance with current_stacks 1 and returns True.  No call applies an effect.
C18_AddCardRefusal ==
    [][ op'.name = "add_card_to_player"
        => LET i == calls'[1].card
               e == OwnedBefore
               full == \/ ~card_class[cards[e].card_id].is_stackable
                       \/ cards[e].current_stacks
                             >= card_class[cards[e].card_id].max_stacks
           IN  /\ returned' = "False" <=> (e # 0 /\ full)
               /\ returned' \in {"True", "False"}
               /\ returned' = "False"
                     => /\ player_cards'.list = player_cards.list
                        /\ cards'[e] = cards[e]
                        /\ cards'[i].current_stacks = PassedBefore.current_stacks
               /\ e = 0
                     => /\ returned' = "True"
                        /\ player_cards'.list = Append(player_cards.list, i)
                        /\ cards'[i].current_stacks = 1
               /\ player' = player
               /\ weapons' = weapons
      ]_vars

\* C18 witness: add_card_to_player has just refused a new instance of a
\* stackable card whose owned instance is at max_stacks.
C18_Witness ==
    /\ op.name = "add_card_to_player"
    /\ returned = "False"
    /\ calls[1].card = 3
    /\ cards[3].current_stacks = 0
    /\ card_class[cards[3].card_id].is_stackable
    /\ player_cards.list = <<1>>
    /\ cards[1].current_stacks = card_class[cards[1].card_id].max_stacks

\* C19: apply_card_to_player returns True or False, never raises; when the
\* card's apply_effect raised it returns False, emits no card_apply, and
\* neither the target object nor any stack counter has changed; when
\* apply_effect succeeded it returns True and emits exactly one card_apply.
C19_ApplyFailureIsNoOp ==
    [][ op'.name = "apply_card_to_player"
        => /\ returned' \in {"True", "False"}
           /\ returned' = "False"
                 => /\ emitted' = <<>>
                    /\ player' = player
                    /\ weapons' = weapons
                    /\ cards' = cards
           /\ returned' = "True"
                 => emitted' = <<Event("card_apply", op'.arg)>>
      ]_vars

\* positions of the fields in PlayerFields and Modifiers
FieldPositions == 1..7
ModifierPositions == 1..5

\* C20: remove_all_cards_from_player calls remove_effect once for every
\* owned card, in the order of the collection, also for the cards after one
\* whose remove_effect raises: each owned card's counter and the fields it
\* acts on end as its own remove_effect leaves them; afterwards the player has
\* no entry; cards that are not owned are untouched; with no cards nothing
\* changes; the call never fails.
C20_RemoveAll ==
    [][ op'.name = "remove_all_cards_from_player"
        => LET l == player_cards.list
           IN  /\ returned' = "None"
               /\ player_cards' = NoCards
               /\ Len(calls') = Len(l)
               /\ \A k \in 1..Len(l) :
                     LET i == l[k]
                         r == RemoveEffectOf(cards[i].card_id, player, weapons,
                                             cards[i].current_stacks)
                     IN  /\ calls'[k].card = i
                         /\ calls'[k].raised = r.raised
                         /\ cards'[i].current_stacks = r.stacks
                         /\ \A f \in FieldPositions :
                               PlayerFields(r.player)[f] # PlayerFields(player)[f]
                               => PlayerFields(player')[f] = PlayerFields(r.player)[f]
                         /\ \A w \in WeaponTypes, f \in ModifierPositions :
                               Modifiers(r.weapons[w])[f] # Modifiers(weapons[w])[f]
                               => Modifiers(weapons'[w])[f] = Modifiers(r.weapons[w])[f]
               /\ \A i \in 1..Len(cards) :
                     (\A k \in 1..Len(l) : l[k] # i) => cards'[i] = cards[i]
               /\ l = <<>> => /\ player' = player
                              /\ weapons' = weapons
                              /\ cards' = cards
      ]_vars

\* C20 witness: on an object without a health attribute the owned
\* extra_health card's remove_effect has raised, the card after it has been
\* removed all the same, and the player's entry is gone.
C20_Witness ==
    /\ op.name = "remove_all_cards_from_player"
    /\ Len(calls) = 2
    /\ calls[1].raised
    /\ ~calls[2].raised
    /\ cards[calls[2].card].current_stacks = 0
    /\ PlayerFields(player) # PlayerFields(before.player)
    /\ player_cards = NoCards

\* the returned cards of the last get_random_cards call
RandomResult == [i \in 1..Len(calls[1].result) |-> cards[calls[1].result[i]]]

Bodies == 1..Len(bodies)

\* the bodies that took part in a collision resolved by the last update
Collided == {c.body_a : c \in Range(current_collisions)}
              \cup {c.body_b : c \in Range(current_collisions)}

\* C22: a sleeping body is slower than its sleep threshold and has an
\* acceleration below it, and an update leaves the position and velocity of
\* a body that slept when the call began and took part in no collision
C22_SleepingBodiesRest ==
    \A i \in Bodies :
        /\ bodies[i].is_sleeping =>
              /\ QLess(length_squared(bodies[i].velocity), bodies[i].sleep_threshold)
              /\ QLess(length_squared(bodies[i].acceleration), bodies[i].sleep_threshold)
        /\ (op.name = "update" /\ observed.start[i].is_sleeping /\ i \notin Collided) =>
              /\ bodies[i].position = observed.start[i].position
              /\ bodies[i].velocity = observed.start[i].velocity

\* a drifting body that fell asleep in the first update stays where it was
\* through the second, while another body moves
C22_Witness ==
    /\ op.name = "update"
    /\ observed.updates = 2
    /\ observed.start[1].is_sleeping
    /\ bodies[1].is_sleeping
    /\ bodies[1].velocity # VZero
    /\ bodies[2].position # observed.start[2].position

\* the two boxes overlap where the narrow phase looks at them
Overlapping(body_a, body_b) == _check_aabb_collision(body_a, body_b) # <<>>

\* C23: a body asleep when update begins, overlapped during the call by an
\* awake dynamic body it may collide with, is in a collision of that call
\* and awake when update returns
C23_SleeperWoken ==
    op.name = "update" =>
        \A i, j \in Bodies :
            (/\ i # j
             /\ observed.start[i].is_sleeping
             /\ ~observed.moved[j].is_sleeping /\ ~observed.moved[j].is_static
             /\ Overlapping(observed.moved[i], observed.moved[j])
             /\ _can_collide(observed.moved[i], observed.moved[j]))
            => /\ \E c \in Range(current_collisions) : {c.body_a, c.body_b} = {i, j}
               /\ ~bodies[i].is_sleeping

Approaching ==
    {l \in Range(observed.resolved) :
        /\ ~l.a_before.is_static /\ ~l.b_before.is_static
        /\ QLess(dot(VSub(l.a_before.velocity, l.b_before.velocity), l.collision.normal),
                 Q(0))}

\* C25: resolving a collision of two approaching dynamic bodies adds
\* j * n / m_a to the first velocity and takes j * n / m_b from the second,
\* with j = -(1 + e) (v_rel . n) / (1/m_a + 1/m_b) and e the smaller
\* restitution; bodies of mass 1 and restitution 0.3 meeting head-on at
\* (100, 0) and (-100, 0) leave at (-30, 0) and (30, 0)
C25_ImpulseResponse ==
    op.name = "update" =>
        \A l \in Approaching :
            LET n == l.collision.normal
                va == l.a_before.velocity
                vb == l.b_before.velocity
                ma == l.a_before.mass
                mb == l.b_before.mass
                e == IF QLess(l.b_before.restitution, l.a_before.restitution)
                     THEN l.b_before.restitution ELSE l.a_before.restitution
                \* j / m_a = -(1 + e) (v_rel . n) m_b / (m_a + m_b)
                scale == QMul(QNeg(QAdd(Q(1), e)), dot(VSub(va, vb), n))
                ja == QDiv(QMul(scale, mb), QAdd(ma, mb))
                jb == QDiv(QMul(scale, ma), QAdd(ma, mb))
            IN /\ l.a_after.velocity = VAdd(va, VMul(n, ja))
               /\ l.b_after.velocity = VSub(vb, VMul(n, jb))
               /\ (/\ ma = Q(1) /\ mb = Q(1)
                   /\ l.a_before.restitution = <<3, 10>> /\ l.b_before.restitution = <<3, 10>>
                   /\ va = Vector2(Q(100), Q(0)) /\ vb = Vector2(Q(-100), Q(0)))
                  => /\ l.a_after.velocity = Vector2(Q(-30), Q(0))
                     /\ l.b_after.velocity = Vector2(Q(30), Q(0))

\* the head-on case has been resolved
C25_Witness ==
    /\ op.name = "update"
    /\ \E l \in Approaching :
          /\ l.a_before.velocity = Vector2(Q(100), Q(0))
          /\ l.b_before.velocity = Vector2(Q(-100), Q(0))
          /\ l.a_before.mass = Q(1) /\ l.a_before.restitution = <<3, 10>>
          /\ l.a_after.velocity = Vector2(Q(-30), Q(0))
          /\ bodies[l.collision.body_b].velocity = Vector2(Q(30), Q(0))

\* the cells of the 64-unit grid the box of a body covers
Cells(body) == _get_hash_coordinates(body)

\* C28: after an update the candidate pairs are exactly the pairs (i, j),
\* i < j, of bodies that were awake and not static in the broad phase, whose
\* boxes covered a common grid cell and whose masks admit each other's layer
C28_BroadPhasePairs ==
    op.name = "update" =>
        LET seen == observed.moved
        IN /\ \A i, j \in Bodies :
                i < j =>
                   (<<i, j>> \in collision_pairs
                    <=> /\ ~seen[i].is_sleeping /\ ~seen[i].is_static
                        /\ ~seen[j].is_sleeping /\ ~seen[j].is_static
                        /\ Cells(seen[i]) \cap Cells(seen[j]) # {}
                        /\ seen[j].collision_layer \in seen[i].collision_mask
                        /\ seen[i].collision_layer \in seen[j].collision_mask)
           /\ \A p \in collision_pairs : p[1] \in Bodies /\ p[2] \in Bodies /\ p[1] < p[2]

\* three bodies give three candidate pairs, one of them of two bodies that
\* share two cells
C28_Witness ==
    /\ op.name = "update"
    /\ Len(bodies) = 3
    /\ <<1, 3>> \in collision_pairs
    /\ Cardinality(Cells(observed.moved[1]) \cap Cells(observed.moved[3])) >= 2
    /\ Cardinality(collision_pairs) = 3

\* C29: when an update runs with an awake dynamic body whose box overlaps a
\* static body it may collide with, the dynamic body is moved by the
\* penetration depth along the normal and the static body keeps its position
\* and velocity
C29_StaticCorrection ==
    op.name = "update" =>
        \A i, j \in Bodies :
            (/\ ~observed.moved[i].is_sleeping /\ ~observed.moved[i].is_static
             /\ observed.moved[j].is_static
             /\ Overlapping(observed.moved[i], observed.moved[j])
             /\ _can_collide(observed.moved[i], observed.moved[j]))
            => LET info == _check_aabb_collision(observed.moved[i], observed.moved[j])[1]
                   shift == VSub(bodies[i].position, observed.moved[i].position)
               IN /\ shift \in {VMul(info.normal, info.penetration),
                                VMul(info.normal, QNeg(info.penetration))}
                  /\ bodies[j].position = observed.start[j].position
                  /\ bodies[j].velocity = observed.start[j].velocity

\* C30: every collision resolved with normal.y < -0.5 leaves each of its
\* non-static bodies grounded, also when the two bodies were separating
C30_Grounding ==
    op.name = "update" =>
        \A l \in Range(observed.resolved) :
            QLess(l.collision.normal.y, <<-1, 2>>) =>
                /\ l.a_after.is_static \/ l.a_after.is_grounded
                /\ l.b_after.is_static \/ l.b_after.is_grounded

\* the edge of a body that the narrow phase compares for a normal: the left
\* edge for a horizontal normal, the top edge for a vertical one
ComparedEdge(body, normal) ==
    IF normal.y = Q(0)
    THEN QSub(body.position.x, QDiv(body.width, Q(2)))
    ELSE QSub(body.position.y, QDiv(body.height, Q(2)))

CallsFor(e) == SelectSeq(received', LAMBDA c : c.event = e.id)

\* the call of a listener for an event
CallOf(listener, e) == [listener |-> listener, event |-> e.id, type |-> e.type]

\* the events of the calls the step made come in emission order
InEmissionOrder ==
    \A i, j \in 1..Len(received') : i < j => received'[i].event <= received'[j].event

\* a queued emit calls no listener and appends the new event to the queue
QueuedEmitDefers ==
    (op'.name = "emit" /\ ~calls'[1].immediate) =>
        /\ received' = <<>>
        /\ event_queue' = Append(event_queue, NewEvent(op'.arg, event_count + 1))

CalledOf(ls) ==
    IF \E k \in 1..Len(ls) : ls[k] = "on_handled"
    THEN CHOOSE k \in 1..Len(ls) :
            ls[k] = "on_handled" /\ \A i \in 1..(k - 1) : ls[i] # "on_handled"
    ELSE Len(ls)

C27_ReentrantDrained ==
    [][op'.name = "process_events" =>
          /\ event_queue' = <<>>
          /\ \A id \in (event_count + 1)..event_count' :
                \A c \in Range(ListenersOf(listeners, "sound_play")) :
                   \E x \in Range(received') : x.event = id /\ x.listener = c
      ]_vars


\* the events that listeners emitted during the step, in emission order
EmittedByListeners ==
    [i \in 1..(event_count' - event_count) |-> NewEvent("sound_play", event_count + i)]

\* C27, amended: an event that a listener emits (queued mode) while
\* process_events is draining is appended to the queue and is not delivered
\* within that call: when process_events returns the queue holds exactly
\* the events emitted during the call, in emission order
C27_ReentrantDeferred ==
    [][op'.name = "process_events" =>
          /\ event_queue' = EmittedByListeners
          /\ Len(EmittedByListeners) =
                Len(SelectSeq(received', LAMBDA c : c.listener = "_handle_weapon_switch"))
          /\ \A c \in Range(received') : c.event <= event_count
      ]_vars

\* a drain called the weapon switch handler for two queued events, and the
\* two sounds it emitted are in the queue when the drain is over
C27_Witness ==
    /\ op.name = "process_events"
    /\ Len(SelectSeq(received, LAMBDA c : c.listener = "_handle_weapon_switch")) = 2
    /\ Len(event_queue) = 2
    /\ \A k \in 1..Len(event_queue) : event_queue[k].type = "sound_play"

\* C31: the narrow-phase check of two bodies at exactly the same position,
\* whatever their widths and heights, reports a collision with normal (1, 0)
C31_CoincidentNormal ==
    (op.name = "_check_aabb_collision" /\ bodies[1].position = bodies[2].position) =>
        /\ calls[1].result # <<>>
        /\ calls[1].result[1].normal = Vector2(Q(1), Q(0))

\* C32: no registered body has mass 0, and no update raises the division by
\* zero of the impulse resolution
C32_ZeroMassRejected ==
    /\ \A i \in Bodies : bodies[i].mass # Q(0)
    /\ returned # "ZeroDivisionError"

\* C33: when the selection callback of the game returns for a weapon card
\* picked by the game's player, the modifiers of every weapon have changed
C33_CardsReachWeapons ==
    [][(/\ op'.name = "_on_card_selected"
        /\ op'.arg \in WeaponCards
        /\ "weapon_manager" \notin player.attrs)
       => \A w \in WeaponTypes : Modifiers(weapons'[w]) # Modifiers(weapons[w])
      ]_vars

\* the most a player card may add to its field: max_stacks times its value
MostOf(c) == card_class[c].max_stacks * player_card_value[c]

\* C36: a pick that add_card_to_player refuses leaves the player's fields as
\* they were, and no field ever holds more than max_stacks times the value
\* of its card on top of what a new player has
C36_RefusedCardHasNoEffect ==
    [][op'.name = "_on_card_selected" =>
          /\ calls'[1].ret = "False" => PlayerFields(player') = PlayerFields(player)
          /\ player'.damage_reduction <= NewPlayer.damage_reduction + MostOf("armor")
          /\ player'.healing_rate <= NewPlayer.healing_rate + MostOf("fast_healing")
          /\ player'.max_health <= NewPlayer.max_health + MostOf("extra_health")
          /\ player'.speed_multiplier <= NewPlayer.speed_multiplier + MostOf("speed_boost")
          /\ player'.jump_force_multiplier
                <= NewPlayer.jump_force_multiplier + MostOf("high_jump")
      ]_vars

\* how far two boxes overlap along the axis of a normal
AxisOverlap(a, b, normal) ==
    IF normal.x # Q(0)
    THEN overlap_along(QSub(a.position.x, QDiv(a.width, Q(2))),
                       QAdd(a.position.x, QDiv(a.width, Q(2))),
                       QSub(b.position.x, QDiv(b.width, Q(2))),
                       QAdd(b.position.x, QDiv(b.width, Q(2))))
    ELSE overlap_along(QSub(a.position.y, QDiv(a.height, Q(2))),
                       QAdd(a.position.y, QDiv(a.height, Q(2))),
                       QSub(b.position.y, QDiv(b.height, Q(2))),
                       QAdd(b.position.y, QDiv(b.height, Q(2))))

\* C35: after _resolve_collision on two dynamic bodies their overlap along
\* the axis of the collision is zero, and not larger than the penetration
\* the narrow phase reported
C35_CorrectionSeparates ==
    op.name = "update" =>
        \A l \in Range(observed.resolved) :
            (~l.a_before.is_static /\ ~l.b_before.is_static) =>
                /\ AxisOverlap(l.a_after, l.b_after, l.collision.normal) = Q(0)
                /\ ~QLess(l.collision.penetration,
                          AxisOverlap(l.a_after, l.b_after, l.collision.normal))

\* C37: get_weighted_random_cards(count) returns exactly count cards, the
\* i-th of the rarity drawn in the i-th pass, whatever the draws were
C37_WeightedCount ==
    op.name = "get_weighted_random_cards" =>
        /\ Len(RandomResult) = calls[1].count
        /\ \A i \in 1..Len(RandomResult) :
              card_rarity[RandomResult[i].card_id] = calls[1].draws[i].rarity

\* the steps of the last frame in which a bullet dealt its damage
IsDamage(s) == s.step \in {"hit", "kill"}

\* C38: a bullet damages a dummy at most once: no bullet deals its damage a
\* second time, and a bullet that has dealt it is no longer an active bullet
\* of the bullet manager
C38_BulletDamagesOnce ==
    /\ \A i \in DOMAIN game.steps : IsDamage(game.steps[i]) => game.steps[i].hits <= 1
    /\ \A i \in DOMAIN game.bullets : game.bullets[i].active => game.bullets[i].hits = 0

\* C34: a kill made by the collision step of a frame has its dummy-death
\* handler dispatched within the same frame, after the collision step and
\* before the UI notification step
C34_DeathHandledWithinTick ==
    \A i \in DOMAIN game.steps :
        game.steps[i].step = "kill" =>
            \E j, k \in DOMAIN game.steps :
                /\ i < j /\ j < k
                /\ game.steps[j].step = "_handle_dummy_death"
                /\ game.steps[j].event = game.steps[i].event
                /\ game.steps[k].step = "game_ui.update"


\* the selected weapon is empty and not reloading
OutOfAmmo ==
    /\ weapons[current_weapon_type].current_ammo = 0
    /\ ~weapons[current_weapon_type].is_reloading

\* reload() on the selected weapon would refuse
ReloadRefuses ==
    reload(current_weapon_type, weapons[current_weapon_type], now).ret = "False"

\* C39: the weapon never gets stuck: no reachable state has the selected
\* weapon empty, not reloading and reload() refusing, so while shoot() is
\* retried an empty weapon always comes to reload or to hold ammunition
C39_WeaponNeverStuck ==
    /\ [](OutOfAmmo => ~ReloadRefuses)
    /\ OutOfAmmo ~> (\/ weapons[current_weapon_type].is_reloading
                     \/ weapons[current_weapon_type].current_ammo > 0)

====
